---- MODULE Spec2Model ----
(***************************************************************************)
(* Weather ingestion / concurrent LLM analysis core of the Django project  *)
(* (api/tasks.py, api/models.py).                                          *)
(*                                                                         *)
(* Strings of the program are sequences of one-character strings, so that  *)
(* length, emptiness and str.upper() are computed and not assumed.         *)
(* JSON values are records tagged by t: "str", "num", "null", "list",      *)
(* "dict".  A raw inference response is a sequence of lexical tokens.      *)
(***************************************************************************)
EXTENDS Integers, Sequences, FiniteSets, Bags, TLC

VARIABLES
    locations,     \* table Locations: location_id -> [is_active]
    weatherData,   \* table WeatherData, committed rows (a bag: the key is a sequence)
    extremeEvents, \* table ExtremeEvents, committed rows (a bag)
    llmPc,         \* trigger_llm_analysis: "idle", "running", "done"
    future,        \* per location: "none", "queued", "inflight", "done", "joined"
    result,        \* per location: what analyze_single_location returned
    llm,           \* locals of trigger_llm_analysis
    llmTxn,        \* the transaction opened by @transaction.atomic
    llmRet,        \* the summary returned
    inferenceCalls,\* per location: requests sent to the inference service
    series,        \* per location: the rows of the time series last sent
    today,         \* timezone.now().date(), as a day number
    ingPc,         \* trigger_data_ingestion: "idle", "running", "done"
    ingQueue,      \* the active locations the loop has still to visit
    ing,           \* locals of trigger_data_ingestion
    ingTxn,        \* the transaction opened by @transaction.atomic
    ingRet,        \* the summary returned
    ingestCalls,   \* calls of ingest_data_for_single_location so far
    lastIngest,    \* the last call of ingest_data_for_single_location
    aiPc,          \* call_local_ai_for_analysis: "start", "posted", "returned"
    aiSent,        \* what the inference service generated (a JSON value, or garbage)
    aiHttp,        \* outcome of requests.post / response.json()
    aiOut,         \* the (alerts, error) tuple returned
    now,           \* timezone.now(), in minutes
    ticks,         \* how often the clock has been advanced
    hotCache,      \* django.core.cache: a set of [key, value, expires, stored]
    adviceCache,   \* table AdviceCache: a set of rows
    advPc,         \* get_ai_advice: "idle", or "computing" after a cache miss
    advReq,        \* locals of the get_ai_advice request in progress
    advCalls,      \* requests answered so far
    advResp,       \* the last response of a view
    advIn,         \* what the last fresh computation was given
    extCalls,      \* requests made to the weather source and the inference service
    clock,         \* the time of the scheduler, in seconds since midnight of day 0
    envFlag,       \* os.environ holds APPSCHEDULER_RUN_ONCE
    sched,         \* the BackgroundScheduler: running, pending jobs, job store
    initPc,        \* per thread: where it stands in ready() / start()
    invoked,       \* ready() or start() has been invoked
    runs,          \* job runs in the executor
    fired,         \* job id -> how often the job was fired
    lastDone,      \* recurring job id -> how its latest run that has ended came out
    parked,        \* the request of another thread, waiting for its turn
    tracked        \* the (location, user) pairs track_location has answered with 201

aiVars  == <<aiPc, aiSent, aiHttp, aiOut>>
dbVars  == <<locations, weatherData, extremeEvents>>
llmVars == <<llmPc, future, result, llm, llmTxn, llmRet, inferenceCalls, series>>
ingVars == <<today, ingPc, ingQueue, ing, ingTxn, ingRet, ingestCalls, lastIngest>>
advVars == <<now, ticks, hotCache, adviceCache, advPc, advReq, advCalls, advResp, advIn,
             extCalls>>
schedVars == <<clock, envFlag, sched, initPc, invoked, runs, fired, lastDone>>
concVars == <<parked, tracked>>
vars    == <<dbVars, llmVars, aiVars, ingVars, advVars, schedVars, concVars>>

---------------------------------------------------------------------------
(* Strings *)

Lower == <<"a","b","c","d","e","f","g","h","i","j","k","l","m",
           "n","o","p","q","r","s","t","u","v","w","x","y","z">>
Upper == <<"A","B","C","D","E","F","G","H","I","J","K","L","M",
           "N","O","P","Q","R","S","T","U","V","W","X","Y","Z">>

\* str.upper() on one character
UpperChar(c) ==
    IF \E i \in DOMAIN Lower : Lower[i] = c
    THEN Upper[CHOOSE i \in DOMAIN Lower : Lower[i] = c]
    ELSE c

\* str.lower() on one character
LowerChar(c) ==
    IF \E i \in DOMAIN Upper : Upper[i] = c
    THEN Lower[CHOOSE i \in DOMAIN Upper : Upper[i] = c]
    ELSE c

\* str.lower()
StrLower(s) == [i \in DOMAIN s |-> LowerChar(s[i])]

\* str.upper()
StrUpper(s) == [i \in DOMAIN s |-> UpperChar(s[i])]

\* a string of n copies of c
Repeat(c, n) == [i \in 1..n |-> c]

S_NONE     == <<"N","O","N","E">>
S_none     == <<"n","o","n","e">>
S_HIGH     == <<"H","I","G","H">>
S_text     == <<"x">>
K_severity == <<"s","e","v","e","r","i","t","y">>
K_impact   == <<"i","m","p","a","c","t","_","f","i","e","l","d">>
K_details  == <<"f","o","r","e","c","a","s","t","_","d","e","t","a","i","l","s","_","v","i">>
K_advice   == <<"a","c","t","i","o","n","a","b","l","e","_","a","d","v","i","c","e","_","v","i">>
K_note     == <<"n","o","t","e">>

---------------------------------------------------------------------------
(* JSON values *)

JStr(s)   == [t |-> "str", s |-> s]
JNum(n)   == [t |-> "num", n |-> n]
JNull     == [t |-> "null"]
JList(xs) == [t |-> "list", items |-> xs]
JDict(d)  == [t |-> "dict", d |-> d]

EmptyMap == [k \in {} |-> JNull]

\* d[key] = val, a later duplicate key replacing an earlier one
MapPut(d, key, val) ==
    [k \in DOMAIN d \cup {key} |-> IF k = key THEN val ELSE d[k]]

(* Tokens of a response text *)
TP(c) == [k |-> "p", v |-> <<c>>]      \* punctuation [ ] { } : ,
TS(s) == [k |-> "s", v |-> s]          \* a quoted string
TN(n) == [k |-> "n", v |-> <<n>>]      \* a number literal, n a digit
TW(w) == [k |-> "w", v |-> w]          \* a bare word: null, or anything else

IsP(toks, i, c) == i <= Len(toks) /\ toks[i] = TP(c)

PFail(i)    == [ok |-> FALSE, val |-> JNull, next |-> i]
POk(val, i) == [ok |-> TRUE, val |-> val, next |-> i]

RECURSIVE ParseValue(_, _), ParseItems(_, _, _), ParseMembers(_, _, _)

\* json.loads: one value starting at token i
ParseValue(toks, i) ==
    IF i > Len(toks) THEN PFail(i)
    ELSE LET tok == toks[i] IN
         CASE tok.k = "s" -> POk(JStr(tok.v), i + 1)
           [] tok.k = "n" -> POk(JNum(tok.v[1]), i + 1)
           [] tok.k = "w" -> IF tok.v = <<"n","u","l","l">>
                             THEN POk(JNull, i + 1) ELSE PFail(i)
           [] tok.k = "p" ->
                IF tok.v = <<"[">> THEN
                    IF IsP(toks, i + 1, "]") THEN POk(JList(<<>>), i + 2)
                    ELSE ParseItems(toks, i + 1, <<>>)
                ELSE IF tok.v = <<"{">> THEN
                    IF IsP(toks, i + 1, "}") THEN POk(JDict(EmptyMap), i + 2)
                    ELSE ParseMembers(toks, i + 1, EmptyMap)
                ELSE PFail(i)

\* the elements of an array, after "[" or ","
ParseItems(toks, i, acc) ==
    LET r == ParseValue(toks, i) IN
    IF ~r.ok THEN PFail(i)
    ELSE IF IsP(toks, r.next, "]") THEN POk(JList(Append(acc, r.val)), r.next + 1)
    ELSE IF IsP(toks, r.next, ",") THEN ParseItems(toks, r.next + 1, Append(acc, r.val))
    ELSE PFail(r.next)

\* the members of an object, after "{" or ","
ParseMembers(toks, i, acc) ==
    IF ~(i <= Len(toks) /\ toks[i].k = "s" /\ IsP(toks, i + 1, ":")) THEN PFail(i)
    ELSE LET r == ParseValue(toks, i + 2) IN
         IF ~r.ok THEN PFail(i)
         ELSE LET d == MapPut(acc, toks[i].v, r.val) IN
              IF IsP(toks, r.next, "}") THEN POk(JDict(d), r.next + 1)
              ELSE IF IsP(toks, r.next, ",") THEN ParseMembers(toks, r.next + 1, d)
              ELSE PFail(r.next)

\* json.loads(text): ok = FALSE is json.JSONDecodeError
JsonLoads(toks) ==
    LET r == ParseValue(toks, 1) IN
    IF r.ok /\ r.next = Len(toks) + 1
    THEN [ok |-> TRUE, val |-> r.val]
    ELSE [ok |-> FALSE, val |-> JNull]

(* Serialisation on the inference service's side: a JSON value as text *)
RECURSIVE JsonDumps(_), DumpItems(_, _), DumpMembers(_, _)

JsonDumps(v) ==
    CASE v.t = "str"  -> <<TS(v.s)>>
      [] v.t = "num"  -> <<TN(v.n)>>
      [] v.t = "null" -> <<TW(<<"n","u","l","l">>)>>
      [] v.t = "list" -> <<TP("[")>> \o DumpItems(v.items, 1) \o <<TP("]")>>
      [] v.t = "dict" -> <<TP("{")>> \o DumpMembers(v.d, DOMAIN v.d) \o <<TP("}")>>

DumpItems(xs, i) ==
    IF i > Len(xs) THEN <<>>
    ELSE JsonDumps(xs[i])
         \o (IF i < Len(xs) THEN <<TP(",")>> ELSE <<>>)
         \o DumpItems(xs, i + 1)

DumpMembers(d, keys) ==
    IF keys = {} THEN <<>>
    ELSE LET k == CHOOSE x \in keys : TRUE IN
         <<TS(k), TP(":")>> \o JsonDumps(d[k])
         \o (IF keys # {k} THEN <<TP(",")>> ELSE <<>>)
         \o DumpMembers(d, keys \ {k})

---------------------------------------------------------------------------
(* call_local_ai_for_analysis *)

NoError == "None"

AiResult(alerts, err) == [alerts |-> alerts, err |-> err]

\* faulty variant: the branch for the empty object is missing
NormalizeResponseNoEmptyBranch(raw_result) ==
    IF raw_result.t = "list" THEN AiResult(raw_result.items, NoError)
    ELSE IF raw_result.t = "dict" THEN
        LET sev == IF K_severity \in DOMAIN raw_result.d
                   THEN raw_result.d[K_severity] ELSE JStr(S_NONE) IN
        IF sev.t # "str" THEN AiResult(<<>>, "Unexpected AI Error")
        ELSE IF StrUpper(sev.s) # S_NONE THEN AiResult(<<raw_result>>, NoError)
        ELSE AiResult(<<>>, "AI response invalid structure")
    ELSE AiResult(<<>>, "AI response invalid structure")

\* faulty variant: every object that is no alert counts as "no alerts"
NormalizeResponseInvalidAsEmpty(raw_result) ==
    IF raw_result.t = "list" THEN AiResult(raw_result.items, NoError)
    ELSE IF raw_result.t = "dict" THEN
        LET sev == IF K_severity \in DOMAIN raw_result.d
                   THEN raw_result.d[K_severity] ELSE JStr(S_NONE) IN
        IF sev.t # "str" THEN AiResult(<<>>, "Unexpected AI Error")
        ELSE IF StrUpper(sev.s) # S_NONE THEN AiResult(<<raw_result>>, NoError)
        ELSE AiResult(<<>>, NoError)
    ELSE AiResult(<<>>, "AI response invalid structure")

\* the classification of the parsed response
NormalizeResponse(raw_result) ==
    IF raw_result.t = "list" THEN AiResult(raw_result.items, NoError)
    ELSE IF raw_result.t = "dict" THEN
        LET sev == IF K_severity \in DOMAIN raw_result.d
                   THEN raw_result.d[K_severity] ELSE JStr(S_NONE) IN
        \* .upper() on a value that is no string raises AttributeError,
        \* which the function's last handler turns into an error outcome
        IF sev.t # "str" THEN AiResult(<<>>, "Unexpected AI Error")
        ELSE IF StrUpper(sev.s) # S_NONE THEN AiResult(<<raw_result>>, NoError)
        ELSE IF DOMAIN raw_result.d = {} THEN AiResult(<<>>, NoError)
        ELSE AiResult(<<>>, "AI response invalid structure")
    ELSE AiResult(<<>>, "AI response invalid structure")

HttpTimeout    == [kind |-> "timeout", text |-> <<>>]
HttpConnection == [kind |-> "connection", text |-> <<>>]
HttpNoField    == [kind |-> "nofield", text |-> <<>>]
HttpBody(text) == [kind |-> "body", text |-> text]

\* http is what requests.post and response.json() produced
call_local_ai_for_analysis(http) ==
    CASE http.kind = "timeout"    -> AiResult(<<>>, "AI Timeout")
      [] http.kind = "connection" -> AiResult(<<>>, "AI Connection Error")
      [] http.kind = "nofield"    -> AiResult(<<>>, "AI response field missing")
      [] http.kind = "body" ->
            LET parsed == JsonLoads(http.text) IN
            IF parsed.ok THEN NormalizeResponse(parsed.val)
            ELSE AiResult(<<>>, "AI Response Parsing Error")

(* What the inference service may answer *)

SevAbsent     == [present |-> FALSE, val |-> JNull]
SevGiven(v)   == [present |-> TRUE, val |-> v]
S_high        == <<"h","i","g","h">>
LongSeverity  == Repeat("X", 21)

SevChoices ==
    {SevAbsent} \cup
    {SevGiven(v) : v \in {JStr(S_HIGH), JStr(S_high), JStr(S_NONE), JStr(S_none),
                          JStr(<<>>), JStr(LongSeverity), JNum("3"), JNull}}

RestOfAlert ==
    (K_impact :> JStr(S_text)) @@ (K_details :> JStr(S_text)) @@ (K_advice :> JStr(S_text))

\* an object with the given severity and, by rest, no other field, the
\* three other alert fields, or one unrelated field
MkObject(sev, rest) ==
    LET base == CASE rest = "none" -> EmptyMap
                  [] rest = "full" -> RestOfAlert
                  [] rest = "note" -> (K_note :> JStr(S_text))
    IN  JDict(IF sev.present THEN MapPut(base, K_severity, sev.val) ELSE base)

Objects == {MkObject(sev, rest) : sev \in SevChoices, rest \in {"none", "full", "note"}}

ValidAlert   == MkObject(SevGiven(JStr(S_HIGH)), "full")
LongAlert    == MkObject(SevGiven(JStr(LongSeverity)), "full")
InvalidAlert == MkObject(SevGiven(JStr(S_HIGH)), "note")

\* a second valid alert, and entries that fail the validation for one field
ValidAlertLower  == MkObject(SevGiven(JStr(S_high)), "full")
EmptyAdviceAlert == JDict(MapPut(ValidAlert.d, K_advice, JStr(<<>>)))
NumSeverityAlert == MkObject(SevGiven(JNum("3")), "full")

\* arrays that mix valid and invalid entries
MixedAlerts ==
    <<InvalidAlert, ValidAlert, EmptyAdviceAlert, ValidAlertLower, NumSeverityAlert>>
MixedAlertsValidFirst == <<ValidAlert, JStr(S_text), ValidAlertLower>>

PairItems == {ValidAlert, InvalidAlert, JDict(EmptyMap)}

SentValues ==
    Objects
    \cup {JList(<<>>)}
    \cup {JList(<<o>>) : o \in Objects}
    \cup {JList(<<a, b>>) : a \in PairItems, b \in PairItems}
    \cup {JStr(S_text), JNum("3"), JNull}

W_not  == TW(<<"n","o","t">>)
W_json == TW(<<"j","s","o","n">>)

\* texts that are not JSON
GarbageTexts ==
    { <<W_not, W_json>>,
      <<>>,
      <<TP("[")>>,
      <<TP("{"), TS(K_severity), TS(S_HIGH), TP("}")>>,
      <<TP("["), TS(S_text), TP(","), TP("]")>>,
      <<TP("{"), TP("}"), TP("{"), TP("}")>> }

NoSent  == [json |-> FALSE, val |-> JNull]
NoHttp  == [kind |-> "none", text |-> <<>>]
NoOut   == AiResult(<<>>, "pending")

AiInit ==
    /\ aiPc = "start"
    /\ aiSent = NoSent
    /\ aiHttp = NoHttp
    /\ aiOut = NoOut

\* requests.post(...) and response.json()
AiPost ==
    /\ aiPc = "start"
    /\ \/ \E v \in SentValues :
            /\ aiSent' = [json |-> TRUE, val |-> v]
            /\ aiHttp' = HttpBody(JsonDumps(v))
       \/ \E g \in GarbageTexts :
            /\ aiSent' = NoSent
            /\ aiHttp' = HttpBody(g)
       \/ \E h \in {HttpTimeout, HttpConnection, HttpNoField} :
            /\ aiSent' = NoSent
            /\ aiHttp' = h
    /\ aiPc' = "posted"
    /\ UNCHANGED aiOut

\* the rest of call_local_ai_for_analysis
AiReturn ==
    /\ aiPc = "posted"
    /\ aiOut' = call_local_ai_for_analysis(aiHttp)
    /\ aiPc' = "returned"
    /\ UNCHANGED <<aiSent, aiHttp>>

---------------------------------------------------------------------------
(* The database *)

NumLocs == 4

\* models.py: max_length of ExtremeEvent.severity and .impact_field
severity_max_length == 20
impact_field_max_length == 50

LocIds == DOMAIN locations

ActiveLocations == {l \in LocIds : locations[l].is_active}

WeatherRow(loc, time, kind, val) ==
    [location |-> loc, record_time |-> time, data_type |-> kind, val |-> val]

EventRow(loc, alert) ==
    [location |-> loc,
     severity |-> alert.d[K_severity].s,
     impact_field |-> alert.d[K_impact].s,
     forecast_details_vi |-> alert.d[K_details].s,
     actionable_advice_vi |-> alert.d[K_advice].s]

\* the rows of a table that belong to one location, with their multiplicity
RowsOfLocation(table, loc) ==
    [r \in {x \in BagToSet(table) : x.location = loc} |-> table[r]]

\* PostgreSQL refuses a string longer than the column (DataError)
DbRejectsEvent(row) ==
    \/ Len(row.severity) > severity_max_length
    \/ Len(row.impact_field) > impact_field_max_length

NewTxn == [state |-> "open", needs_rollback |-> FALSE, pending |-> EmptyBag]

\* a statement that raises inside the atomic block marks the block for rollback
TxnAfterFailure(txn) == [txn EXCEPT !.needs_rollback = TRUE]

\* leaving the atomic block: commit, or roll back when the block is marked
AtomicExit(txn, table) ==
    IF txn.needs_rollback THEN table ELSE table (+) txn.pending

---------------------------------------------------------------------------
(* analyze_single_location and trigger_llm_analysis *)

max_workers == 3
series_limit == 14
required_records == 14

NotEnoughData == "Not enough data"

Min(a, b) == IF a < b THEN a ELSE b

\* len(time_series_qs): the latest rows of the location, at most series_limit
SeriesLen(loc) ==
    Min(BagCardinality(RowsOfLocation(weatherData, loc)), series_limit)

\* faulty variant: an off-by-one threshold
HasTooFewRecordsOffByOne(loc) == SeriesLen(loc) < required_records - 1

HasTooFewRecords(loc) == SeriesLen(loc) < required_records

\* faulty variant: the window is cut from the oldest end
LatestRowsOldestFirst(loc) ==
    LET rows == {r \in BagToSet(weatherData) : r.location = loc}
    IN  {r \in rows :
           Cardinality({o \in rows : o.record_time < r.record_time}) < series_limit}

\* filter(location=loc).order_by('-record_time')[:14]
LatestRows(loc) ==
    LET rows == {r \in BagToSet(weatherData) : r.location = loc}
    IN  {r \in rows :
           Cardinality({o \in rows : o.record_time > r.record_time}) < series_limit}

RECURSIVE SortedByRecordTime(_)

\* sorted(..., key=lambda x: x['record_time'])
SortedByRecordTime(rows) ==
    IF rows = {} THEN <<>>
    ELSE LET first == CHOOSE r \in rows :
                        \A o \in rows : r.record_time <= o.record_time
         IN  <<first>> \o SortedByRecordTime(rows \ {first})

\* time_series_data; an element stands for the row whose values are sent
TimeSeries(loc) == SortedByRecordTime(LatestRows(loc))

InFlight == {l \in LocIds : future[l] = "inflight"}

\* faulty variant: a pool that starts a thread per task
PoolHasIdleWorkerUnbounded == TRUE

\* ThreadPoolExecutor(max_workers=3): a queued task starts when a worker is free
PoolHasIdleWorker == Cardinality(InFlight) < max_workers

required_keys == {K_severity, K_impact, K_details, K_advice}

\* faulty variant: a present string passes even when it is empty
IsValidAlertAllowsEmpty(alert) ==
    /\ alert.t = "dict"
    /\ \A k \in required_keys :
          /\ k \in DOMAIN alert.d
          /\ alert.d[k].t = "str"

IsValidAlert(alert) ==
    /\ alert.t = "dict"
    /\ \A k \in required_keys :
          /\ k \in DOMAIN alert.d
          /\ alert.d[k].t = "str"
          /\ alert.d[k].s # <<>>

\* ExtremeEvent.objects.create raises: the block is already marked, or the
\* database refuses the row
CreateFails(txn, row) == txn.needs_rollback \/ DbRejectsEvent(row)

RECURSIVE StoreAlerts(_, _, _, _)

\* the loop over alert_results; st carries the transaction and the locals
StoreAlerts(loc, alerts, i, st) ==
    IF i > Len(alerts) THEN st
    ELSE IF ~IsValidAlert(alerts[i]) THEN StoreAlerts(loc, alerts, i + 1, st)
    ELSE LET row == EventRow(loc, alerts[i])
             offered == IF DbRejectsEvent(row) THEN st.offered
                        ELSE st.offered (+) SetToBag({row})
         IN IF CreateFails(st.txn, row)
            THEN StoreAlerts(loc, alerts, i + 1,
                    [st EXCEPT !.txn = TxnAfterFailure(@),
                               !.errors_occurred_db = TRUE,
                               !.failed_writes = @ + 1,
                               !.offered = offered])
            ELSE StoreAlerts(loc, alerts, i + 1,
                    [st EXCEPT !.txn.pending = @ (+) SetToBag({row}),
                               !.alerts_created_count = @ + 1,
                               !.offered = offered])

\* faulty variant: "Not enough data" counted as an inference error
IsCriticalTaskErrorAny(task_err) == task_err # NoError

\* if task_err and task_err != "Not enough data"
IsCriticalTaskError(task_err) == task_err # NoError /\ task_err # NotEnoughData

AnyCriticalErrors(l) == l.errors_occurred_ai \/ l.errors_occurred_db

NoRet == [returned |-> FALSE, success |-> FALSE, created |-> 0]

LlmLocals ==
    [alerts_created_count |-> 0,
     errors_occurred_ai |-> FALSE,
     errors_occurred_db |-> FALSE,
     errors_occurred_data |-> FALSE,
     failed_writes |-> 0,        \* create calls that raised
     offered |-> EmptyBag]       \* valid alerts the database accepts

LlmInit ==
    /\ llmPc = "idle"
    /\ future = [l \in LocIds |-> "none"]
    /\ result = [l \in LocIds |-> NoOut]
    /\ llm = LlmLocals
    /\ llmTxn = NewTxn
    /\ llmRet = NoRet
    /\ inferenceCalls = [l \in LocIds |-> 0]
    /\ series = [l \in LocIds |-> <<>>]

\* entering trigger_llm_analysis, up to the submission of the tasks
LlmStart ==
    /\ llmPc = "idle"
    /\ IF ActiveLocations = {}
       THEN /\ llmPc' = "done"
            /\ llmRet' = [returned |-> TRUE, success |-> TRUE, created |-> 0]
            /\ llmTxn' = [llmTxn EXCEPT !.state = "committed"]
            /\ UNCHANGED future
       ELSE /\ llmPc' = "running"
            /\ future' = [l \in LocIds |->
                            IF l \in ActiveLocations THEN "queued" ELSE "none"]
            /\ UNCHANGED <<llmRet, llmTxn>>
    /\ UNCHANGED <<result, llm, inferenceCalls, series, dbVars, aiVars, ingVars>>

\* a pool thread takes a task: analyze_single_location up to the request
WorkerStart(l) ==
    /\ llmPc = "running"
    /\ future[l] = "queued"
    /\ PoolHasIdleWorker
    /\ IF HasTooFewRecords(l)
       THEN /\ future' = [future EXCEPT ![l] = "done"]
            /\ result' = [result EXCEPT ![l] = AiResult(<<>>, NotEnoughData)]
            /\ UNCHANGED <<inferenceCalls, series>>
       ELSE /\ future' = [future EXCEPT ![l] = "inflight"]
            /\ inferenceCalls' = [inferenceCalls EXCEPT ![l] = @ + 1]
            /\ series' = [series EXCEPT ![l] = TimeSeries(l)]
            /\ UNCHANGED result
    /\ UNCHANGED <<llmPc, llm, llmTxn, llmRet, dbVars, aiVars, ingVars>>

\* what the inference service answers during a run
AnalysisHttp ==
    { HttpTimeout,
      HttpConnection,
      HttpBody(JsonDumps(JList(<<>>))),
      HttpBody(JsonDumps(JList(MixedAlerts))),
      HttpBody(JsonDumps(JList(MixedAlertsValidFirst))),
      HttpBody(JsonDumps(JList(<<LongAlert>>))) }

\* the request returns: the rest of analyze_single_location
WorkerFinish(l) ==
    /\ llmPc = "running"
    /\ future[l] = "inflight"
    /\ \E http \in AnalysisHttp :
          result' = [result EXCEPT ![l] = call_local_ai_for_analysis(http)]
    /\ future' = [future EXCEPT ![l] = "done"]
    /\ UNCHANGED <<llmPc, llm, llmTxn, llmRet, inferenceCalls, series, dbVars, aiVars, ingVars>>

\* one turn of the as_completed loop
Join(l) ==
    /\ llmPc = "running"
    /\ future[l] = "done"
    /\ future' = [future EXCEPT ![l] = "joined"]
    /\ LET task_err == result[l].err IN
       IF IsCriticalTaskError(task_err)
       THEN /\ llm' = [llm EXCEPT !.errors_occurred_ai = TRUE]
            /\ UNCHANGED llmTxn
       ELSE IF task_err = NotEnoughData
       THEN /\ llm' = [llm EXCEPT !.errors_occurred_data = TRUE]
            /\ UNCHANGED llmTxn
       ELSE LET st == StoreAlerts(l, result[l].alerts, 1,
                                  [txn |-> llmTxn] @@ llm)
            IN /\ llm' = [k \in DOMAIN llm |-> st[k]]
               /\ llmTxn' = st.txn
    /\ UNCHANGED <<llmPc, result, llmRet, inferenceCalls, series, dbVars, aiVars, ingVars>>

\* every task joined: the summary is returned and the atomic block left
LlmFinish ==
    /\ llmPc = "running"
    /\ \A l \in LocIds : future[l] \in {"none", "joined"}
    /\ llmPc' = "done"
    /\ llmRet' = [returned |-> TRUE,
                  success |-> ~AnyCriticalErrors(llm),
                  created |-> llm.alerts_created_count]
    /\ extremeEvents' = AtomicExit(llmTxn, extremeEvents)
    /\ llmTxn' = [llmTxn EXCEPT !.state =
                    IF llmTxn.needs_rollback THEN "rolledback" ELSE "committed"]
    /\ UNCHANGED <<locations, weatherData, future, result, llm, inferenceCalls, series, aiVars, ingVars>>

---------------------------------------------------------------------------
(* ingest_data_for_single_location and trigger_data_ingestion *)

NumIngestLocs == 2
MaxIngests == 2
MaxDayAdvance == 1

\* today - timedelta(days=1); end_date_hist - timedelta(days=6); 'days': 7
hist_end_offset == 1
hist_span == 6
forecast_days == 7

FirstDay == hist_end_offset + hist_span + 1

NoSuchLocation == 0

DayEntry(date, valid, val) == [date |-> date, valid |-> valid, val |-> val]

FetchError    == [data |-> FALSE, err |-> TRUE, days |-> <<>>]
FetchOk(days) == [data |-> TRUE, err |-> FALSE, days |-> days]

\* the days from..to, the first one malformed when asked
DaySeq(from, to, val, firstBad) ==
    [i \in 1..(to - from + 1) |-> DayEntry(from + i - 1, ~(firstBad /\ i = 1), val)]

\* faulty variant: the history window ends today
HistoryOutcomesEndingToday(day) ==
    LET end_date_hist == day
        start_date_hist == end_date_hist - hist_span
    IN  { FetchError,
          FetchOk(<<>>),
          FetchOk(DaySeq(start_date_hist, end_date_hist, 1, FALSE)),
          FetchOk(DaySeq(start_date_hist, end_date_hist, 1, TRUE)) }

\* what the history endpoint may answer for dt..end_dt
HistoryOutcomes(day) ==
    LET end_date_hist == day - hist_end_offset
        start_date_hist == end_date_hist - hist_span
    IN  { FetchError,
          FetchOk(<<>>),
          FetchOk(DaySeq(start_date_hist, end_date_hist, 1, FALSE)),
          FetchOk(DaySeq(start_date_hist, end_date_hist, 1, TRUE)) }

\* what the forecast endpoint may answer for days = 7
ForecastOutcomes(day) ==
    { FetchError }
    \cup { FetchOk(DaySeq(day, day + forecast_days - 1, 2, FALSE)) }

\* the fetches and the database's answer of one call; a call that fetches
\* nothing, or inserts nothing, has nothing to vary
CallInputs(day, fetches, inserts) ==
    { c \in [hist : HistoryOutcomes(day), fc : ForecastOutcomes(day), db_fails : BOOLEAN] :
        /\ fetches \/ (c.hist = FetchError /\ c.fc = FetchError)
        /\ c.db_fails => inserts /\ (c.hist.days # <<>> \/ c.fc.days # <<>>) }

RECURSIVE RecordsOf(_, _, _, _)

\* the loop over forecastday: a malformed entry is skipped
RecordsOf(loc, kind, days, i) ==
    IF i > Len(days) THEN <<>>
    ELSE (IF days[i].valid
          THEN <<WeatherRow(loc, days[i].date, kind, days[i].val)>>
          ELSE <<>>)
         \o RecordsOf(loc, kind, days, i + 1)

\* all_records_to_insert
RecordsToInsert(loc, hist, fc) ==
    (IF hist.data THEN RecordsOf(loc, "HISTORY", hist.days, 1) ELSE <<>>)
    \o (IF fc.data THEN RecordsOf(loc, "FORECAST", fc.days, 1) ELSE <<>>)

\* errors_occurred after both fetches
FetchErrorsOccurred(hist, fc) ==
    (~hist.data /\ hist.err) \/ (~fc.data /\ fc.err)

HasKey(table, row) ==
    \E r \in BagToSet(table) :
        r.location = row.location /\ r.record_time = row.record_time

RECURSIVE BulkCreateNoConstraint(_, _, _)

\* faulty variant: no unique_together, every row is inserted
BulkCreateNoConstraint(table, batch, i) ==
    IF i > Len(batch) THEN table
    ELSE BulkCreateNoConstraint(table (+) SetToBag({batch[i]}), batch, i + 1)

RECURSIVE BulkCreateOverwrite(_, _, _)

\* faulty variant: a conflicting row replaces the stored one
BulkCreateOverwrite(table, batch, i) ==
    IF i > Len(batch) THEN table
    ELSE LET kept == { r \in BagToSet(table) :
                         ~(r.location = batch[i].location
                           /\ r.record_time = batch[i].record_time) }
         IN BulkCreateOverwrite(SetToBag(kept \cup {batch[i]}), batch, i + 1)

RECURSIVE BulkCreate(_, _, _)

\* bulk_create(..., ignore_conflicts=True) under unique_together
\* (location, record_time): the table after the insert
BulkCreate(table, batch, i) ==
    IF i > Len(batch) THEN table
    ELSE IF HasKey(table, batch[i]) THEN BulkCreate(table, batch, i + 1)
    ELSE BulkCreate(table (+) SetToBag({batch[i]}), batch, i + 1)

\* faulty variant: a fetch error fails the call although records were obtained
IngestReturnsStrict(batch, bulk_raised, errors_occurred) ==
    ~bulk_raised /\ ~errors_occurred

\* the value ingest_data_for_single_location returns once the location is found
IngestReturns(batch, bulk_raised, errors_occurred) ==
    IF batch # <<>> THEN ~bulk_raised ELSE ~errors_occurred

NoIngest ==
    [called |-> FALSE, location_id |-> NoSuchLocation, batch |-> <<>>,
     errors_occurred |-> FALSE, bulk_raised |-> FALSE, raised |-> FALSE,
     ok |-> FALSE, in_txn |-> FALSE, repeat |-> FALSE]

IngLocals == [total_success |-> 0, total_fail |-> 0, attempted |-> <<>>,
              offered |-> <<>>]

IngInit ==
    /\ today = FirstDay
    /\ ingPc = "idle"
    /\ ingQueue = <<>>
    /\ ing = IngLocals
    /\ ingTxn = NewTxn
    /\ ingRet = NoRet
    /\ ingestCalls = 0
    /\ lastIngest = NoIngest

\* the rows another open transaction has inserted and not yet committed
Uncommitted == IF ingPc = "running" THEN ingTxn.pending ELSE EmptyBag

\* the one-shot job, or any call outside a transaction (autocommit)
IngestOne(location_id, hist, fc, db_fails) ==
    /\ ingestCalls < MaxIngests
    /\ ingestCalls' = ingestCalls + 1
    /\ IF location_id \notin LocIds
       THEN /\ lastIngest' = [NoIngest EXCEPT !.called = TRUE]
            /\ UNCHANGED weatherData
       ELSE LET batch == RecordsToInsert(location_id, hist, fc)
                bulk_raised == batch # <<>> /\ db_fails
                errors == FetchErrorsOccurred(hist, fc)
            IN  \* an insert waits for an uncommitted row with its key
                /\ \A i \in DOMAIN batch : ~HasKey(Uncommitted, batch[i])
                /\ weatherData' = IF batch # <<>> /\ ~bulk_raised
                                  THEN BulkCreate(weatherData, batch, 1)
                                  ELSE weatherData
                /\ lastIngest' =
                      [called |-> TRUE, location_id |-> location_id, batch |-> batch,
                       errors_occurred |-> errors, bulk_raised |-> bulk_raised,
                       raised |-> FALSE,
                       ok |-> IngestReturns(batch, bulk_raised, errors),
                       in_txn |-> FALSE,
                       repeat |-> /\ lastIngest.called /\ lastIngest.ok
                                  /\ ~lastIngest.in_txn
                                  /\ lastIngest.batch = batch /\ batch # <<>>]
    /\ UNCHANGED <<locations, extremeEvents, llmVars, aiVars,
                   today, ingPc, ingQueue, ing, ingTxn, ingRet>>

RECURSIVE SeqOfSet(_)

\* the queryset's rows, by primary key
SeqOfSet(S) ==
    IF S = {} THEN <<>>
    ELSE LET m == CHOOSE x \in S : \A y \in S : x <= y
         IN <<m>> \o SeqOfSet(S \ {m})

\* entering trigger_data_ingestion
IngStart ==
    /\ ingPc \in {"idle", "done"}
    /\ ingestCalls < MaxIngests
    /\ ing' = IngLocals
    /\ ingTxn' = NewTxn
    /\ IF ActiveLocations = {}
       THEN /\ ingPc' = "done"
            /\ ingRet' = [returned |-> TRUE, success |-> TRUE, created |-> 0]
            /\ ingQueue' = <<>>
       ELSE /\ ingPc' = "running"
            /\ ingRet' = NoRet
            /\ ingQueue' = SeqOfSet(ActiveLocations)
    /\ UNCHANGED <<dbVars, llmVars, aiVars, today, ingestCalls, lastIngest>>

\* faulty variant: the loop stops at the first failure
QueueAfterStopOnFailure(queue, success) ==
    IF success THEN Tail(queue) ELSE <<>>

\* for loc in active_locations: the loop goes on whatever the outcome
QueueAfter(queue, success) == Tail(queue)

\* one turn of the loop of trigger_data_ingestion
IngStep(hist, fc, db_fails) ==
    /\ ingPc = "running"
    /\ ingQueue # <<>>
    /\ ingestCalls < MaxIngests
    /\ ingestCalls' = ingestCalls + 1
    /\ LET loc == Head(ingQueue)
           batch == RecordsToInsert(loc, hist, fc)
           errors == FetchErrorsOccurred(hist, fc)
           \* Location.objects.get raises in a block marked for rollback
           raised == ingTxn.needs_rollback
           bulk_raised == ~raised /\ batch # <<>> /\ db_fails
           success == ~raised /\ IngestReturns(batch, bulk_raised, errors)
       IN /\ ingTxn' =
                IF raised THEN ingTxn
                ELSE IF bulk_raised THEN TxnAfterFailure(ingTxn)
                ELSE IF batch # <<>>
                THEN [ingTxn EXCEPT !.pending =
                        BulkCreate(weatherData (+) @, batch, 1) (-) weatherData]
                ELSE ingTxn
          /\ ing' = [ing EXCEPT
                       !.total_success = IF success THEN @ + 1 ELSE @,
                       !.total_fail = IF success THEN @ ELSE @ + 1,
                       !.attempted = Append(@, loc),
                       !.offered = IF db_fails THEN @ ELSE @ \o batch]
          /\ ingQueue' = QueueAfter(ingQueue, success)
          /\ lastIngest' =
                [called |-> TRUE, location_id |-> loc,
                 batch |-> IF raised THEN <<>> ELSE batch,
                 errors_occurred |-> ~raised /\ errors,
                 bulk_raised |-> bulk_raised, raised |-> raised,
                 ok |-> success, in_txn |-> TRUE, repeat |-> FALSE]
    /\ UNCHANGED <<dbVars, llmVars, aiVars, today, ingPc, ingRet>>

\* the loop is over: the summary is returned and the atomic block left
IngFinish ==
    /\ ingPc = "running"
    /\ ingQueue = <<>>
    /\ ingPc' = "done"
    /\ ingRet' = [returned |-> TRUE, success |-> ~(ing.total_fail > 0), created |-> 0]
    /\ weatherData' = AtomicExit(ingTxn, weatherData)
    /\ ingTxn' = [ingTxn EXCEPT !.state =
                    IF ingTxn.needs_rollback THEN "rolledback" ELSE "committed"]
    /\ UNCHANGED <<locations, extremeEvents, llmVars, aiVars,
                   today, ingQueue, ing, ingestCalls, lastIngest>>

\* midnight passes
DayAdvance ==
    /\ today < FirstDay + MaxDayAdvance
    /\ today' = today + 1
    /\ UNCHANGED <<dbVars, llmVars, aiVars,
                   ingPc, ingQueue, ing, ingTxn, ingRet, ingestCalls, lastIngest>>

---------------------------------------------------------------------------
(* The advisory views (api/views.py): clock, hot cache, advisory log *)

MaxTicks == 2
MaxAdviceCalls == 3

\* minutes: a day, cache.set(..., timeout=3 * 60 * 60), timedelta(hours=1)
minutes_per_day == 1440
cache_timeout   == 180
recent_window   == 60

\* 20:58; the steps reach the ages 59..61 and 179..181, 23:59 and the next day
StartTime == 20 * 60 + 58
TickSteps == {59, 60, 61, 120}

\* timezone.now().strftime('%Y-%m-%d')
DateOf(t) == t \div minutes_per_day

\* faulty variant: the key keeps the case of the name
CacheKeyCaseSensitive(location_name_en, t) ==
    [name |-> location_name_en, day |-> DateOf(t)]

\* f"ai_advice:{location_name_en.lower()}:{today_date_str}"
CacheKey(location_name_en, t) ==
    [name |-> StrLower(location_name_en), day |-> DateOf(t)]

\* faulty variant: an entry outlives its expiry time
CacheLiveIgnoringExpiry(cache, t) == cache

\* locmem: an entry whose expiry time has come is no longer there
CacheLive(cache, t) == {e \in cache : e.expires > t}

CacheHas(cache, key, t) == \E e \in CacheLive(cache, t) : e.key = key

\* cache.get(key)
CacheGet(cache, key, t) == (CHOOSE e \in CacheLive(cache, t) : e.key = key).value

\* faulty variant: the entry never expires
CacheSetForever(cache, key, value, t) ==
    {e \in cache : e.key # key}
        \cup {[key |-> key, value |-> value, expires |-> t + 1000000, stored |-> t]}

\* cache.set(key, value, timeout)
CacheSet(cache, key, value, t) ==
    {e \in cache : e.key # key}
        \cup {[key |-> key, value |-> value, expires |-> t + cache_timeout, stored |-> t]}

AdvClockInit ==
    /\ ticks = 0
    /\ hotCache = {}

\* time passes between two requests
Tick(d) ==
    /\ advPc = "idle"
    /\ ticks < MaxTicks
    /\ now' = now + d
    /\ ticks' = ticks + 1
    /\ UNCHANGED <<hotCache, adviceCache, advPc, advReq, advCalls, advResp, advIn, extCalls>>
    /\ UNCHANGED <<dbVars, llmVars, aiVars, ingVars>>

(* call_local_ai_for_advice *)

K_type    == <<"t","y","p","e">>
K_message == <<"m","e","s","s","a","g","e","_","v","i">>
T_advice  == <<"a","d","v","i","c","e">>
T_warning == <<"w","a","r","n","i","n","g">>
T_error   == <<"e","r","r","o","r">>
T_info    == <<"i","n","f","o">>
M_1       == <<"m","1">>
M_2       == <<"m","2">>

Advisory(type, message) == JDict((K_type :> JStr(type)) @@ (K_message :> JStr(message)))

\* faulty variant: a dict is returned whatever its keys
AdviceResultAnyDict(result_json) ==
    IF result_json.t = "dict" THEN result_json ELSE JNull

\* the structure check; None is JNull
AdviceResult(result_json) ==
    IF /\ result_json.t = "dict"
       /\ K_type \in DOMAIN result_json.d
       /\ K_message \in DOMAIN result_json.d
    THEN result_json ELSE JNull

call_local_ai_for_advice(http) ==
    IF http.kind # "body" THEN JNull
    ELSE LET parsed == JsonLoads(http.text) IN
         IF parsed.ok THEN AdviceResult(parsed.val) ELSE JNull

\* what the inference service may answer to an advice request
AdviceHttp ==
    { HttpTimeout,
      HttpBody(JsonDumps(Advisory(T_advice, M_1))),
      HttpBody(JsonDumps(Advisory(T_warning, M_2))),
      HttpBody(JsonDumps(Advisory(T_info, M_1))),
      HttpBody(JsonDumps(Advisory(T_error, M_1))),
      HttpBody(JsonDumps(JDict(K_type :> JStr(T_advice)))),
      HttpBody(JsonDumps(JList(<<>>))) }

\* faulty variant: an answer of type "error" is taken as an advisory
IsUsableAdviceAnyType(advice_result) ==
    /\ advice_result.t = "dict"
    /\ DOMAIN advice_result.d # {}

\* if advice_result and advice_result.get("type") != "error"
IsUsableAdvice(advice_result) ==
    /\ advice_result.t = "dict"
    /\ DOMAIN advice_result.d # {}
    /\ ~(K_type \in DOMAIN advice_result.d /\ advice_result.d[K_type] = JStr(T_error))

(* Location and AdviceCache rows as the views use them *)

\* Decimal('0.001'), in millionths of a degree (DecimalField decimal_places=6)
coord_tolerance == 1000

N_Hue == <<"H","u","e">>
N_hue == <<"h","u","e">>
Names == {N_Hue, N_hue}

LocationRow(name_en, latitude, longitude, users) ==
    [is_active |-> TRUE, name_en |-> name_en,
     latitude |-> latitude, longitude |-> longitude, users |-> users]

\* filter(name_en__iexact=q)
MatchIexact(q) ==
    {id \in DOMAIN locations : StrLower(locations[id].name_en) = StrLower(q)}

\* filter(name_en=q)
MatchExact(q) == {id \in DOMAIN locations : locations[id].name_en = q}

SetMin(S) == CHOOSE x \in S : \A y \in S : x <= y
SetMax(S) == CHOOSE x \in S : \A y \in S : y <= x

\* BigAutoField
NextId(ids) == IF ids = {} THEN 1 ELSE SetMax(ids) + 1

AdviceRow(id, location, generated_time, advice_type, message_vi) ==
    [id |-> id, location |-> location, generated_time |-> generated_time,
     advice_type |-> advice_type, message_vi |-> message_vi]

AdviceRowsOf(location) == {r \in adviceCache : r.location = location}

\* the generation timestamp a record gets when create() passes none: the
\* time of the insert
GeneratedTimeDefault(t) == t

Abs(x) == IF x < 0 THEN -x ELSE x

\* faulty variant: a difference equal to the tolerance counts as a change
CoordinatesDifferAtTolerance(row, lat_decimal, lon_decimal) ==
    \/ Abs(row.latitude - lat_decimal) >= coord_tolerance
    \/ Abs(row.longitude - lon_decimal) >= coord_tolerance

\* abs(location_obj.latitude - lat_decimal) > Decimal('0.001') or ... longitude
CoordinatesDiffer(row, lat_decimal, lon_decimal) ==
    \/ Abs(row.latitude - lat_decimal) > coord_tolerance
    \/ Abs(row.longitude - lon_decimal) > coord_tolerance

(* What the weather source answers to get_ai_advice *)

CoordNum(u) == [kind |-> "num", u |-> u]
CoordNone   == [kind |-> "none", u |-> 0]
CoordBad    == [kind |-> "bad", u |-> 0]

\* Decimal(str(x)): InvalidOperation for a value that is no number
ToDecimal(c) == [ok |-> c.kind = "num", u |-> c.u]

Weather(fc_ok, hours, lat, lon) ==
    [fc_ok |-> fc_ok, hours |-> hours, lat |-> lat, lon |-> lon]

BaseLat == CoordNum(21000000)
BaseLon == CoordNum(105800000)

\* the forecast fails; no hourly data; coordinates absent or unparsable;
\* an hour without a usable time; coordinates at, within and beyond the
\* tolerance from the base position
AdviceWeather ==
    { Weather(FALSE, "ok", BaseLat, BaseLon),
      Weather(TRUE, "none", BaseLat, BaseLon),
      Weather(TRUE, "ok", CoordNone, BaseLon),
      Weather(TRUE, "ok", BaseLat, CoordBad),
      Weather(TRUE, "badtime", BaseLat, BaseLon),
      Weather(TRUE, "ok", BaseLat, BaseLon),
      Weather(TRUE, "ok", CoordNum(21000500), BaseLon),
      Weather(TRUE, "ok", CoordNum(21001000), BaseLon),
      Weather(TRUE, "ok", BaseLat, CoordNum(105810000)) }

\* faulty variant: the coordinates are not looked at
WeatherUsableIgnoringCoordinates(w) == w.fc_ok /\ w.hours # "none"

\* the fetch yields hourly data and both coordinates convert
WeatherUsable(w) ==
    /\ w.fc_ok /\ w.hours # "none"
    /\ w.lat.kind # "none" /\ w.lon.kind # "none"
    /\ ToDecimal(w.lat).ok /\ ToDecimal(w.lon).ok

AdviceInput(w, http, db_fails) == [w |-> w, http |-> http, db_fails |-> db_fails]

NoInput == AdviceInput(Weather(FALSE, "none", CoordNone, CoordNone), NoHttp, FALSE)

NoBody == JNull

Resp(op, q, status, kind, body) ==
    [op |-> op, q |-> q, status |-> status, kind |-> kind, body |-> body]

NoCalls == [weather |-> 0, inference |-> 0]

NoResp == Resp("none", <<>>, 0, "none", NoBody)
NoReq  == [q |-> <<>>, cache_key |-> CacheKey(<<>>, 0), elapsed |-> FALSE]

\* no other thread has a request in progress
NoParked == [pc |-> "idle", req |-> NoReq]

Tracked(id, user_id) == [id |-> id, user |-> user_id]

\* no request has been made yet
AdvIdleInit ==
    /\ AdvClockInit
    /\ adviceCache = {}
    /\ advPc = "idle"
    /\ advReq = NoReq
    /\ advCalls = 0
    /\ advResp = NoResp
    /\ advIn = NoInput
    /\ extCalls = NoCalls
    /\ parked = NoParked
    /\ tracked = {}


(* get_ai_advice *)

\* AdviceCache.objects.update_or_create(location=..., defaults={...}) on a
\* cache hit; with several rows of the location it raises
\* MultipleObjectsReturned, which the view logs and drops
UpdateOrCreate(table, location, cached_advice, t) ==
    LET rows == {r \in table : r.location = location}
        type == cached_advice.d[K_type].s
        message == cached_advice.d[K_message].s
    IN  IF rows = {}
        THEN table \cup {AdviceRow(NextId({r.id : r \in table}), location, t, type, message)}
        ELSE IF Cardinality(rows) = 1
        THEN (table \ rows) \cup
                 {AdviceRow(r.id, location, t, type, message) : r \in rows}
        ELSE table

\* the request up to the cache lookup, and the whole answer on a hit
GetAdviceStart(q) ==
    /\ advPc = "idle"
    /\ advCalls < MaxAdviceCalls
    /\ LET cache_key == CacheKey(q, now) IN
       /\ hotCache' = {e \in hotCache : e.key # cache_key \/ e.expires > now}
       /\ IF CacheHas(hotCache, cache_key, now)
          THEN LET cached_advice == CacheGet(hotCache, cache_key, now)
                   matches == MatchIexact(q)
               IN /\ adviceCache' =
                        IF matches = {} THEN adviceCache
                        ELSE UpdateOrCreate(adviceCache, SetMin(matches), cached_advice, now)
                  /\ advResp' = Resp("get_ai_advice", q, 200, "hit", cached_advice)
                  /\ advCalls' = advCalls + 1
                  /\ UNCHANGED <<advPc, advReq>>
          ELSE /\ advPc' = "computing"
               /\ advReq' = [q |-> q, cache_key |-> cache_key, elapsed |-> FALSE]
               /\ UNCHANGED <<adviceCache, advResp, advCalls>>
    /\ UNCHANGED <<now, ticks, advIn, extCalls, dbVars, llmVars, aiVars, ingVars>>

\* Location.objects.get_or_create(name_en__iexact=..., defaults=...) and the
\* coordinate update, in one atomic block; obj = 0 stands for None
RegisterLocation(table, q, lat_decimal, lon_decimal) ==
    LET matches == {id \in DOMAIN table : StrLower(table[id].name_en) = StrLower(q)} IN
    IF matches = {}
    THEN LET id == NextId(DOMAIN table) IN
         [table |-> (id :> LocationRow(q, lat_decimal, lon_decimal, {})) @@ table,
          obj |-> id]
    ELSE IF Cardinality(matches) = 1
    THEN LET id == SetMin(matches) IN
         [table |-> IF CoordinatesDiffer(table[id], lat_decimal, lon_decimal)
                    THEN [table EXCEPT ![id].latitude = lat_decimal,
                                       ![id].longitude = lon_decimal]
                    ELSE table,
          obj |-> id]
    ELSE [table |-> table, obj |-> 0]

\* faulty variant: the log row is written only for a location that existed
LogAdviceExistingOnly(table, location_obj, advice_result, t, db_fails) ==
    IF location_obj = 0 \/ db_fails \/ ~\E r \in table : r.location = location_obj
    THEN table
    ELSE table \cup {AdviceRow(NextId({r.id : r \in table}), location_obj,
                               GeneratedTimeDefault(t),
                               advice_result.d[K_type].s, advice_result.d[K_message].s)}

\* AdviceCache.objects.create(...) when a Location was obtained
LogAdvice(table, location_obj, advice_result, t, db_fails) ==
    IF location_obj = 0 \/ db_fails THEN table
    ELSE table \cup {AdviceRow(NextId({r.id : r \in table}), location_obj,
                               GeneratedTimeDefault(t),
                               advice_result.d[K_type].s, advice_result.d[K_message].s)}

\* a minute passes while the weather source and the inference service are
\* waited for; followed only where it changes the date
Elapse ==
    /\ advPc = "computing"
    /\ ~advReq.elapsed
    /\ DateOf(now + 1) # DateOf(now)
    /\ now' = now + 1
    /\ advReq' = [advReq EXCEPT !.elapsed = TRUE]
    /\ UNCHANGED <<ticks, hotCache, adviceCache, advPc, advCalls, advResp, advIn, extCalls>>
    /\ UNCHANGED <<dbVars, llmVars, aiVars, ingVars>>

\* the history loop over the last 3 days and the one forecast request
advice_history_days == 3

AdviceWeatherCalls == advice_history_days + 1

\* the requests of one fresh computation: the inference service is asked
\* only when the weather data got as far as the call
AfterAdviceCalls(calls, w) ==
    [weather |-> calls.weather + AdviceWeatherCalls,
     inference |-> IF ~w.fc_ok \/ w.hours = "none" \/ ~WeatherUsable(w)
                      \/ w.hours = "badtime"
                   THEN calls.inference ELSE calls.inference + 1]

ErrorResp(q, status) == Resp("get_ai_advice", q, status, "error", NoBody)

\* the rest of the request after a cache miss
GetAdviceFinish(w, http, db_fails) ==
    /\ advPc = "computing"
    /\ advPc' = "idle"
    /\ advReq' = NoReq
    /\ advCalls' = advCalls + 1
    /\ advIn' = AdviceInput(w, http, db_fails)
    /\ extCalls' = AfterAdviceCalls(extCalls, w)
    /\ LET q == advReq.q
           advice_result == call_local_ai_for_advice(http)
       IN
       IF ~w.fc_ok \/ w.hours = "none"
       THEN /\ advResp' = ErrorResp(q, 503)
            /\ UNCHANGED <<hotCache, adviceCache, locations>>
       ELSE IF ~WeatherUsable(w)
       THEN /\ advResp' = ErrorResp(q, 404)
            /\ UNCHANGED <<hotCache, adviceCache, locations>>
       ELSE IF w.hours = "badtime"
       THEN /\ advResp' = ErrorResp(q, 500)
            /\ UNCHANGED <<hotCache, adviceCache, locations>>
       ELSE IF ~IsUsableAdvice(advice_result)
       THEN /\ advResp' = ErrorResp(q, 503)
            /\ UNCHANGED <<hotCache, adviceCache, locations>>
       ELSE LET reg == RegisterLocation(locations, q, ToDecimal(w.lat).u, ToDecimal(w.lon).u)
            IN /\ hotCache' = CacheSet(hotCache, advReq.cache_key, advice_result, now)
               /\ locations' = reg.table
               /\ adviceCache' = LogAdvice(adviceCache, reg.obj, advice_result, now, db_fails)
               /\ advResp' = Resp("get_ai_advice", q, 200, "fresh", advice_result)
    /\ UNCHANGED <<now, ticks, weatherData, extremeEvents, llmVars, aiVars, ingVars>>

(* check_recent_advice *)

\* order_by('-generated_time').first(): the rows a query may put first
LatestAdvice(rows) == {r \in rows : \A o \in rows : o.generated_time <= r.generated_time}

\* faulty variant: the window is compared the wrong way round
IsRecentInverted(row, t) == row.generated_time <= t - recent_window

\* latest_advice.generated_time >= timezone.now() - timedelta(hours=1)
IsRecent(row, t) == row.generated_time >= t - recent_window

CheckRecentAdvice(q) ==
    /\ advPc = "idle"
    /\ advCalls < MaxAdviceCalls
    /\ advCalls' = advCalls + 1
    /\ LET matches == MatchIexact(q) IN
       IF matches = {}
       THEN advResp' = Resp("check_recent_advice", q, 200, "stale", NoBody)
       ELSE IF Cardinality(matches) > 1
       \* Location.objects.get raises MultipleObjectsReturned
       THEN advResp' = Resp("check_recent_advice", q, 500, "error", NoBody)
       ELSE LET rows == AdviceRowsOf(SetMin(matches)) IN
            IF rows = {}
            THEN advResp' = Resp("check_recent_advice", q, 200, "stale", NoBody)
            ELSE \E latest_advice \in LatestAdvice(rows) :
                   advResp' = IF IsRecent(latest_advice, now)
                              THEN Resp("check_recent_advice", q, 200, "advice", latest_advice)
                              ELSE Resp("check_recent_advice", q, 200, "stale", NoBody)
    /\ UNCHANGED <<now, ticks, hotCache, adviceCache, advPc, advReq, advIn, extCalls>>
    /\ UNCHANGED <<dbVars, llmVars, aiVars, ingVars>>

(* The scheduler: api/scheduler.py and api/apps.py *)

NumInitThreads == 2
MaxDays == 1

\* the cadence of the cron triggers, 00:01 and 03:01, in seconds
day_seconds == 86400
ingestion_cron_time == 60
analysis_cron_time == 10860

\* timedelta(seconds=10), timedelta(minutes=2)
ingest_delay == 10
analyze_delay == 120

\* requests.get(..., timeout=30)
weather_timeout == 30

InitThreads == 1..NumInitThreads

Digits == <<"0", "1", "2", "3", "4", "5", "6", "7", "8", "9">>

RECURSIVE StrOfNat(_)

\* str(n), as used by an f-string
StrOfNat(n) ==
    IF n < 10 THEN <<Digits[n + 1]>>
    ELSE StrOfNat(n \div 10) \o <<Digits[(n % 10) + 1]>>

P_instant_ingest  == "instant_ingest_"
P_instant_analyze == "instant_analyze_"

\* f'{prefix}{new_loc_id}': the prefix followed by the digits of the id
JobId(prefix, n) == <<prefix>> \o StrOfNat(n)

ID_data_ingestion == <<"data_ingestion_job">>
ID_llm_analysis   == <<"llm_analysis_job">>

RecurringIds == {ID_data_ingestion, ID_llm_analysis}

Job(id, trigger, func, arg, next_run_time) ==
    [id |-> id, trigger |-> trigger, func |-> func, arg |-> arg,
     next_run_time |-> next_run_time]

\* the first time of day `at` that is not before t
NextCronTime(t, at) ==
    LET midnight == t - (t % day_seconds)
    IN  IF t % day_seconds <= at THEN midnight + at ELSE midnight + day_seconds + at

\* faulty variant: the ingestion is registered for one run only
IngestionJobOnce(t) ==
    Job(ID_data_ingestion, "date", "trigger_data_ingestion", 0,
        NextCronTime(t, ingestion_cron_time))

\* the two jobs start() registers
IngestionJob(t) ==
    Job(ID_data_ingestion, "cron", "trigger_data_ingestion", 0,
        NextCronTime(t, ingestion_cron_time))

AnalysisJob(t) ==
    Job(ID_llm_analysis, "cron", "trigger_llm_analysis", 0,
        NextCronTime(t, analysis_cron_time))

\* faulty variant: both one-shot jobs get the same id
InstantJobsOneId(new_loc_id, t) ==
    << Job(JobId(P_instant_ingest, new_loc_id), "date",
           "ingest_data_for_single_location", new_loc_id, t + ingest_delay),
       Job(JobId(P_instant_ingest, new_loc_id), "date",
           "analyze_single_location", new_loc_id, t + analyze_delay) >>

\* faulty variant: the two jobs recur daily
InstantJobsDaily(new_loc_id, t) ==
    << Job(JobId(P_instant_ingest, new_loc_id), "cron",
           "ingest_data_for_single_location", new_loc_id, t + ingest_delay),
       Job(JobId(P_instant_analyze, new_loc_id), "cron",
           "analyze_single_location", new_loc_id, t + analyze_delay) >>

\* the two one-shot jobs track_location adds for a new location
InstantJobs(new_loc_id, t) ==
    << Job(JobId(P_instant_ingest, new_loc_id), "date",
           "ingest_data_for_single_location", new_loc_id, t + ingest_delay),
       Job(JobId(P_instant_analyze, new_loc_id), "date",
           "analyze_single_location", new_loc_id, t + analyze_delay) >>

\* the job store's add with replace_existing=True
StoreAdd(store, job) == {j \in store : j.id # job.id} \cup {job}

\* scheduler.add_job(..., replace_existing=True): a scheduler that is not
\* running keeps the job in its pending list
AddJob(s, job) ==
    IF s.running THEN [s EXCEPT !.store = StoreAdd(@, job)]
    ELSE [s EXCEPT !.pending = Append(@, job)]

RECURSIVE AddJobs(_, _)

AddJobs(s, jobs) ==
    IF jobs = <<>> THEN s ELSE AddJobs(AddJob(s, Head(jobs)), Tail(jobs))

RECURSIVE StoreAddAll(_, _)

StoreAddAll(store, jobs) ==
    IF jobs = <<>> THEN store ELSE StoreAddAll(StoreAdd(store, Head(jobs)), Tail(jobs))

\* BackgroundScheduler.start() of a stopped scheduler: the pending jobs go
\* to the store and the scheduler thread is started
StartScheduler(s) ==
    [running |-> TRUE, starts |-> s.starts + 1, pending |-> <<>>,
     store |-> StoreAddAll(s.store, s.pending)]

\* every job that was added and has not left the scheduler
Scheduled(s) == s.store \cup {s.pending[i] : i \in DOMAIN s.pending}

ScheduledCount(s) == Cardinality(s.store) + Len(s.pending)

FiredCount(id) == IF id \in DOMAIN fired THEN fired[id] ELSE 0

NoRun == <<>>

SchedInit ==
    /\ clock = 0
    /\ sched = [running |-> FALSE, starts |-> 0, pending |-> <<>>, store |-> {}]
    /\ initPc = [t \in InitThreads |-> "idle"]
    /\ invoked = FALSE
    /\ runs = {}
    /\ fired = <<>>
    /\ lastDone = NoRun

\* the views are not called and the scheduler is not started
AdvInit == now = StartTime /\ AdvIdleInit /\ SchedInit /\ envFlag = FALSE

(* track_location *)

NumUsers == 1
Users == 1..NumUsers

\* faulty variant: the request's coordinates are stored as well
SubscribeAndMove(row, latitude, longitude, user_id) ==
    [row EXCEPT !.users = @ \cup {user_id}, !.is_active = TRUE,
                !.latitude = latitude, !.longitude = longitude]

\* the update of a location that exists: users = list(set(users) | {user_id}),
\* is_active = True, save(update_fields=['users', 'is_active'])
Subscribe(row, latitude, longitude, user_id) ==
    [row EXCEPT !.users = @ \cup {user_id}, !.is_active = TRUE]

\* get_or_create(name_en=name_en, ...) and the subscriber update
TrackLocation(name_en, latitude, longitude, user_id) ==
    /\ advPc = "idle"
    /\ advCalls < MaxAdviceCalls
    /\ advCalls' = advCalls + 1
    /\ LET matches == MatchExact(name_en) IN
       IF matches = {}
       THEN LET new_loc_id == NextId(DOMAIN locations) IN
            /\ locations' = (new_loc_id :>
                                LocationRow(name_en, latitude, longitude, {user_id}))
                            @@ locations
            /\ sched' = AddJobs(sched, InstantJobs(new_loc_id, clock))
            /\ tracked' = tracked \cup {Tracked(new_loc_id, user_id)}
       ELSE LET id == SetMin(matches) IN
            /\ locations' = [locations EXCEPT
                                ![id] = Subscribe(@, latitude, longitude, user_id)]
            /\ tracked' = tracked \cup {Tracked(id, user_id)}
            /\ UNCHANGED sched
    /\ advResp' = Resp("track_location", name_en, 201, "tracked", NoBody)
    /\ UNCHANGED <<now, ticks, hotCache, adviceCache, advPc, advReq, advIn, extCalls>>
    /\ UNCHANGED <<clock, envFlag, initPc, invoked, runs, fired, lastDone, parked>>
    /\ UNCHANGED <<weatherData, extremeEvents, llmVars, aiVars, ingVars>>

(* track_location, one call after the other *)

NumTrackUsers == 2
TrackUsers == 1..NumTrackUsers

\* the position a second request gives for the same name
MovedLat == BaseLat.u + 500

TrackLats == {BaseLat.u, MovedLat}

\* the Location table a process finds: empty, or one row that earlier
\* requests or the administration left behind
TrackTables ==
    {<<>>} \cup
    { <<[LocationRow(N_Hue, BaseLat.u, BaseLon.u, us) EXCEPT !.is_active = a]>> :
          us \in SUBSET TrackUsers, a \in BOOLEAN }

TrackInit ==
    /\ locations \in TrackTables
    /\ weatherData = EmptyBag
    /\ extremeEvents = EmptyBag
    /\ LlmInit
    /\ AiInit
    /\ IngInit
    /\ now = StartTime
    /\ AdvIdleInit
    /\ SchedInit
    /\ envFlag = FALSE

TrackNext ==
    \E name_en \in Names, latitude \in TrackLats, user_id \in TrackUsers :
        TrackLocation(name_en, latitude, BaseLon.u, user_id)

SpecTrack == TrackInit /\ [][TrackNext]_vars

BaseWeather == Weather(TRUE, "ok", BaseLat, BaseLon)

\* the inputs of one fresh computation: every weather outcome with an
\* inference service that answers, every inference answer at the base
\* position, and a failing insert
AdviceInputs ==
    {AdviceInput(w, HttpBody(JsonDumps(Advisory(T_warning, M_2))), FALSE) :
        w \in AdviceWeather}
    \cup {AdviceInput(BaseWeather, h, FALSE) : h \in AdviceHttp}
    \cup {AdviceInput(BaseWeather, HttpBody(JsonDumps(Advisory(T_advice, M_1))), TRUE)}

AdviceInit ==
    /\ locations = <<>>
    /\ weatherData = EmptyBag
    /\ extremeEvents = EmptyBag
    /\ LlmInit
    /\ AiInit
    /\ IngInit
    /\ now = StartTime
    /\ AdvIdleInit
    /\ SchedInit
    /\ envFlag = FALSE

AdviceNext ==
    \/ \E d \in TickSteps : Tick(d) /\ UNCHANGED <<schedVars, concVars>>
    \/ \E q \in Names : GetAdviceStart(q) /\ UNCHANGED <<schedVars, concVars>>
    \/ Elapse /\ UNCHANGED <<schedVars, concVars>>
    \/ \E c \in AdviceInputs :
         GetAdviceFinish(c.w, c.http, c.db_fails) /\ UNCHANGED <<schedVars, concVars>>
    \/ \E q \in Names : CheckRecentAdvice(q) /\ UNCHANGED <<schedVars, concVars>>
    \/ \E name_en \in Names, user_id \in Users :
         TrackLocation(name_en, BaseLat.u, BaseLon.u, user_id)

SpecAdvice == AdviceInit /\ [][AdviceNext]_vars

---------------------------------------------------------------------------
(* Two request threads: the views between their reads and their writes *)

\* track_location up to get_or_create: a new row is created and answered at
\* once, an existing row is read into the request
TrackGet(name_en, latitude, longitude, user_id) ==
    /\ advPc = "idle"
    /\ advCalls < MaxAdviceCalls
    /\ LET matches == MatchExact(name_en) IN
       IF matches = {}
       THEN LET new_loc_id == NextId(DOMAIN locations) IN
            /\ locations' = (new_loc_id :>
                                LocationRow(name_en, latitude, longitude, {user_id}))
                            @@ locations
            /\ sched' = AddJobs(sched, InstantJobs(new_loc_id, clock))
            /\ tracked' = tracked \cup {Tracked(new_loc_id, user_id)}
            /\ advCalls' = advCalls + 1
            /\ advResp' = Resp("track_location", name_en, 201, "tracked", NoBody)
            /\ UNCHANGED <<advPc, advReq>>
       ELSE LET id == SetMin(matches) IN
            /\ advPc' = "saving"
            /\ advReq' = [q |-> name_en, cache_key |-> NoReq.cache_key,
                          elapsed |-> FALSE, id |-> id, location |-> locations[id],
                          latitude |-> latitude, longitude |-> longitude,
                          user_id |-> user_id]
            /\ UNCHANGED <<locations, sched, tracked, advCalls, advResp>>
    /\ UNCHANGED <<now, ticks, hotCache, adviceCache, advIn, extCalls>>
    /\ UNCHANGED <<clock, envFlag, initPc, invoked, runs, fired, lastDone, parked>>
    /\ UNCHANGED <<weatherData, extremeEvents, llmVars, aiVars, ingVars>>

\* track_location from the update of the object it read to the response:
\* save(update_fields=['users', 'is_active']) writes the object's two fields
TrackSave ==
    /\ advPc = "saving"
    /\ LET location == Subscribe(advReq.location, advReq.latitude, advReq.longitude,
                                 advReq.user_id)
       IN  locations' = [locations EXCEPT ![advReq.id].users = location.users,
                                          ![advReq.id].is_active = location.is_active]
    /\ tracked' = tracked \cup {Tracked(advReq.id, advReq.user_id)}
    /\ advPc' = "idle"
    /\ advReq' = NoReq
    /\ advCalls' = advCalls + 1
    /\ advResp' = Resp("track_location", advReq.q, 201, "tracked", NoBody)
    /\ UNCHANGED <<now, ticks, hotCache, adviceCache, advIn, extCalls>>
    /\ UNCHANGED <<schedVars, parked>>
    /\ UNCHANGED <<weatherData, extremeEvents, llmVars, aiVars, ingVars>>

\* the other thread gets its turn
Switch ==
    /\ advPc # "idle" \/ parked.pc # "idle"
    /\ parked' = [pc |-> advPc, req |-> advReq]
    /\ advPc' = parked.pc
    /\ advReq' = parked.req
    /\ UNCHANGED <<now, ticks, hotCache, adviceCache, advCalls, advResp, advIn, extCalls>>
    /\ UNCHANGED <<dbVars, llmVars, aiVars, ingVars, schedVars, tracked>>

\* a computation that succeeds and one whose inference call times out
ConcurrentInputs ==
    { AdviceInput(BaseWeather, HttpBody(JsonDumps(Advisory(T_warning, M_2))), FALSE),
      AdviceInput(BaseWeather, HttpTimeout, FALSE) }

ConcurrentInit ==
    /\ locations \in TrackTables
    /\ weatherData = EmptyBag
    /\ extremeEvents = EmptyBag
    /\ LlmInit
    /\ AiInit
    /\ IngInit
    /\ now = StartTime
    /\ AdvIdleInit
    /\ SchedInit
    /\ envFlag = FALSE

ConcurrentNext ==
    \/ \E name_en \in Names, latitude \in TrackLats, user_id \in TrackUsers :
         TrackGet(name_en, latitude, BaseLon.u, user_id)
    \/ TrackSave
    \/ Switch
    \/ \E q \in Names : GetAdviceStart(q) /\ UNCHANGED <<schedVars, concVars>>
    \/ \E c \in ConcurrentInputs :
         GetAdviceFinish(c.w, c.http, c.db_fails) /\ UNCHANGED <<schedVars, concVars>>

SpecConcurrent == ConcurrentInit /\ [][ConcurrentNext]_vars

---------------------------------------------------------------------------
(* ApiConfig.ready, scheduler.start and the scheduler at work *)

\* what a scheduler step leaves alone
SchedOthers == <<dbVars, llmVars, aiVars, ingVars, now, ticks, hotCache, adviceCache,
                 advPc, advReq, advCalls, advResp, advIn, concVars>>

\* an initialization path has been invoked and none is in progress
InitDone == invoked /\ \A t \in InitThreads : initPc[t] = "idle"

\* ready(): run_once = os.environ.get('APPSCHEDULER_RUN_ONCE', None);
\* initialization paths run while the process starts up, before it serves
\* its first request
ReadyEnter(t) ==
    /\ initPc[t] = "idle"
    /\ clock = 0
    /\ advCalls = 0
    /\ invoked' = TRUE
    /\ initPc' = [initPc EXCEPT ![t] = IF envFlag THEN "idle" ELSE "set_flag"]
    /\ UNCHANGED <<clock, envFlag, sched, runs, fired, lastDone, extCalls, SchedOthers>>

\* ready(): os.environ['APPSCHEDULER_RUN_ONCE'] = 'true', then scheduler.start()
ReadySetFlag(t) ==
    /\ initPc[t] = "set_flag"
    /\ envFlag' = TRUE
    /\ initPc' = [initPc EXCEPT ![t] = "start"]
    /\ UNCHANGED <<clock, sched, invoked, runs, fired, lastDone, extCalls, SchedOthers>>

\* scheduler.start() invoked by another initialization path
StartEnter(t) ==
    /\ initPc[t] = "idle"
    /\ clock = 0
    /\ advCalls = 0
    /\ invoked' = TRUE
    /\ initPc' = [initPc EXCEPT ![t] = "start"]
    /\ UNCHANGED <<clock, envFlag, sched, runs, fired, lastDone, extCalls, SchedOthers>>

\* start(): if scheduler.running: return
StartCheck(t) ==
    /\ initPc[t] = "start"
    /\ initPc' = [initPc EXCEPT ![t] = IF sched.running THEN "idle" ELSE "add_ingestion"]
    /\ UNCHANGED <<clock, envFlag, sched, invoked, runs, fired, lastDone, extCalls, SchedOthers>>

\* start(): add_job(trigger_data_ingestion, 'cron', hour=0, minute=1, ...)
StartAddIngestion(t) ==
    /\ initPc[t] = "add_ingestion"
    /\ sched' = AddJob(sched, IngestionJob(clock))
    /\ initPc' = [initPc EXCEPT ![t] = "add_analysis"]
    /\ UNCHANGED <<clock, envFlag, invoked, runs, fired, lastDone, extCalls, SchedOthers>>

\* start(): add_job(trigger_llm_analysis, 'cron', hour=3, minute=1, ...)
StartAddAnalysis(t) ==
    /\ initPc[t] = "add_analysis"
    /\ sched' = AddJob(sched, AnalysisJob(clock))
    /\ initPc' = [initPc EXCEPT ![t] = "start_scheduler"]
    /\ UNCHANGED <<clock, envFlag, invoked, runs, fired, lastDone, extCalls, SchedOthers>>

\* start(): scheduler.start(); on a running scheduler it raises
\* SchedulerAlreadyRunningError, which the except clause logs
StartSchedulerCall(t) ==
    /\ initPc[t] = "start_scheduler"
    /\ sched' = IF sched.running THEN sched ELSE StartScheduler(sched)
    /\ initPc' = [initPc EXCEPT ![t] = "idle"]
    /\ UNCHANGED <<clock, envFlag, invoked, runs, fired, lastDone, extCalls, SchedOthers>>

\* one request is answered at once, or nearly uses up the timeout twice,
\* for the connection and again for the response
CallDurations == {1, 2 * (weather_timeout - 1)}

\* how long a run of the job's function may take, in seconds
DurationsOf(func) ==
    IF func = "ingest_data_for_single_location"
    THEN {a + a : a \in CallDurations}
    ELSE IF func = "analyze_single_location" THEN {1}
    ELSE {60}

\* how a run may end: it returns its summary, returns a failure, or raises
Outcomes == {"ok", "failed", "raised"}

\* the job store once the job was submitted: a date trigger has no further
\* run time and the job is removed, a cron job gets its next run time
AfterFiring(store, job) ==
    IF job.trigger = "date" THEN store \ {job}
    ELSE (store \ {job}) \cup {[job EXCEPT !.next_run_time = @ + day_seconds]}

\* the scheduler thread submits a due job to the executor
Fire(job) ==
    /\ sched.running
    /\ job \in sched.store
    /\ job.next_run_time <= clock
    /\ \E d \in DurationsOf(job.func) :
          runs' = runs \cup {[id |-> job.id, func |-> job.func, arg |-> job.arg,
                              started |-> clock, ends |-> clock + d]}
    /\ sched' = [sched EXCEPT !.store = AfterFiring(@, job)]
    /\ fired' = (job.id :> (FiredCount(job.id) + 1)) @@ fired
    /\ UNCHANGED <<clock, envFlag, initPc, invoked, lastDone, extCalls, SchedOthers>>

\* the requests a run of the function has made when it ends
CallsOf(run) ==
    IF run.func = "ingest_data_for_single_location" THEN 2
    ELSE IF run.func = "trigger_data_ingestion" THEN 2 * Cardinality(ActiveLocations)
    ELSE 0

\* what analyze_single_location may hand back to its caller; the records
\* the ingestion runs stored before it are not kept one by one here, so the
\* length of the series it finds is left open
AnalyzeReturns ==
    {AiResult(<<>>, NotEnoughData)}
        \cup {call_local_ai_for_analysis(http) : http \in AnalysisHttp}

\* the locations a run of the function analyzes
AnalyzedBy(run) ==
    IF run.func = "trigger_llm_analysis" THEN ActiveLocations
    ELSE IF run.func = "analyze_single_location" THEN {run.arg} \cap LocIds
    ELSE {}

RECURSIVE StoreAll(_, _, _)

\* the as_completed loop of trigger_llm_analysis over the given results
StoreAll(locs, rets, st) ==
    IF locs = {} THEN st
    ELSE LET l == SetMin(locs)
         IN StoreAll(locs \ {l}, rets,
                     IF rets[l].err # NoError THEN st
                     ELSE StoreAlerts(l, rets[l].alerts, 1, st))

\* faulty variant: the onboarding analysis stores its alerts as well
JobWritesAnalyzeStores(run, rets, table) ==
    IF run.func \in {"trigger_llm_analysis", "analyze_single_location"}
    THEN AtomicExit(StoreAll(DOMAIN rets, rets, [txn |-> NewTxn] @@ LlmLocals).txn,
                    table)
    ELSE table

\* the alert table once a run has returned: trigger_llm_analysis creates the
\* rows and leaves its atomic block; the tuple analyze_single_location
\* returns to the executor is dropped
JobWrites(run, rets, table) ==
    IF run.func = "trigger_llm_analysis"
    THEN AtomicExit(StoreAll(DOMAIN rets, rets, [txn |-> NewTxn] @@ LlmLocals).txn,
                    table)
    ELSE table

\* a run ends; whatever its outcome, the executor only logs it
Complete(run) ==
    /\ run \in runs
    /\ run.ends <= clock
    /\ runs' = runs \ {run}
    /\ \E outcome \in Outcomes :
          /\ lastDone' = IF run.id \in RecurringIds
                         THEN (run.id :> outcome) @@ lastDone
                         ELSE lastDone
          /\ \E rets \in [AnalyzedBy(run) -> AnalyzeReturns] :
                extremeEvents' = IF outcome = "raised" THEN extremeEvents
                                 ELSE JobWrites(run, rets, extremeEvents)
    /\ extCalls' = [extCalls EXCEPT !.weather = @ + CallsOf(run)]
    /\ UNCHANGED <<clock, envFlag, sched, initPc, invoked, fired>>
    /\ UNCHANGED <<locations, weatherData, llmVars, aiVars, ingVars, now, ticks,
                   hotCache, adviceCache, advPc, advReq, advCalls, advResp, advIn,
                   concVars>>

\* the clock stops after the daily ingestion that follows the last day
Horizon == MaxDays * day_seconds + ingestion_cron_time

\* the times at which something is due
EventTimes ==
    {r.ends : r \in runs}
        \cup (IF sched.running THEN {j.next_run_time : j \in sched.store} ELSE {})

\* the scheduler sleeps until the next run time and a run takes its time;
\* an initialization in progress finishes within the second
AdvanceClock ==
    /\ EventTimes # {}
    /\ \A e \in EventTimes : e > clock
    /\ \A t \in InitThreads : initPc[t] = "idle"
    /\ SetMin(EventTimes) <= Horizon
    /\ clock' = SetMin(EventTimes)
    /\ UNCHANGED <<envFlag, sched, initPc, invoked, runs, fired, lastDone, extCalls, SchedOthers>>

\* a process whose environment may already carry the flag
SchedulerInit ==
    /\ locations = <<>>
    /\ weatherData = EmptyBag
    /\ extremeEvents = EmptyBag
    /\ LlmInit
    /\ AiInit
    /\ IngInit
    /\ now = StartTime
    /\ AdvIdleInit
    /\ SchedInit
    /\ envFlag \in BOOLEAN

SchedulerNext ==
    \/ \E t \in InitThreads : ReadyEnter(t)
    \/ \E t \in InitThreads : ReadySetFlag(t)
    \/ \E t \in InitThreads : StartEnter(t)
    \/ \E t \in InitThreads : StartCheck(t)
    \/ \E t \in InitThreads : StartAddIngestion(t)
    \/ \E t \in InitThreads : StartAddAnalysis(t)
    \/ \E t \in InitThreads : StartSchedulerCall(t)
    \/ \E name_en \in Names, user_id \in Users :
         InitDone /\ TrackLocation(name_en, BaseLat.u, BaseLon.u, user_id)
    \/ \E job \in sched.store : Fire(job)
    \/ \E run \in runs : Complete(run)
    \/ AdvanceClock

SpecScheduler == SchedulerInit /\ [][SchedulerNext]_vars

\* the next step of the invocation that thread t is in
InitStep(t) ==
    \/ ReadySetFlag(t)
    \/ StartCheck(t)
    \/ StartAddIngestion(t)
    \/ StartAddAnalysis(t)
    \/ StartSchedulerCall(t)

\* threads are scheduled fairly: an invocation in progress finishes, the
\* scheduler thread submits the jobs that are due and wakes up at the next
\* run time, and a run ends
SpecSchedulerFair ==
    /\ SpecScheduler
    /\ \A t \in InitThreads : WF_vars(InitStep(t))
    /\ WF_vars(\E job \in sched.store : Fire(job))
    /\ WF_vars(\E run \in runs : Complete(run))
    /\ WF_vars(AdvanceClock)

IngestInit ==
    /\ \E k \in 0..NumIngestLocs :
          locations = [l \in 1..NumIngestLocs |-> [is_active |-> l <= k]]
    /\ weatherData = EmptyBag
    /\ extremeEvents = EmptyBag
    /\ LlmInit
    /\ AiInit
    /\ IngInit
    /\ AdvInit

IngestNext ==
    \/ \E id \in LocIds \cup {NoSuchLocation} :
         \E c \in CallInputs(today, id \in LocIds, TRUE) :
           IngestOne(id, c.hist, c.fc, c.db_fails) /\ UNCHANGED <<advVars, schedVars, concVars>>
    \/ IngStart /\ UNCHANGED <<advVars, schedVars, concVars>>
    \/ \E c \in CallInputs(today, ~ingTxn.needs_rollback, ~ingTxn.needs_rollback) :
         IngStep(c.hist, c.fc, c.db_fails) /\ UNCHANGED <<advVars, schedVars, concVars>>
    \/ IngFinish /\ UNCHANGED <<advVars, schedVars, concVars>>
    \/ DayAdvance /\ UNCHANGED <<advVars, schedVars, concVars>>

SpecIngest == IngestInit /\ [][IngestNext]_vars


---------------------------------------------------------------------------
(* Specifications *)

\* the rows a location has when the analysis runs
AnalysisStore(short) ==
    SetToBag({ WeatherRow(l, d, IF d <= 7 THEN "HISTORY" ELSE "FORECAST", 1) :
                 l \in 1..NumLocs,
                 d \in 1..(required_records + 1) } \
             { r \in [location : 1..NumLocs, record_time : 1..(required_records + 1),
                      data_type : {"HISTORY", "FORECAST"}, val : {1}] :
                 \/ r.location <= short /\ r.record_time >= required_records
                 \/ r.location > short + 1 /\ r.record_time > required_records })

\* k active locations, of which the first `short` have one record too few,
\* the next has one more than the window and the others exactly the window
AnalysisInit ==
    /\ \E k \in 0..NumLocs, short \in 0..NumLocs :
          /\ short <= k
          /\ locations = [l \in 1..NumLocs |-> [is_active |-> l <= k]]
          /\ weatherData = AnalysisStore(short)
    /\ extremeEvents = EmptyBag
    /\ LlmInit
    /\ AiInit
    /\ IngInit
    /\ AdvInit

AnalysisNext ==
    \/ LlmStart /\ UNCHANGED <<advVars, schedVars, concVars>>
    \/ \E l \in LocIds : WorkerStart(l) /\ UNCHANGED <<advVars, schedVars, concVars>>
    \/ \E l \in LocIds : WorkerFinish(l) /\ UNCHANGED <<advVars, schedVars, concVars>>
    \/ \E l \in LocIds : Join(l) /\ UNCHANGED <<advVars, schedVars, concVars>>
    \/ LlmFinish /\ UNCHANGED <<advVars, schedVars, concVars>>

SpecAnalysis == AnalysisInit /\ [][AnalysisNext]_vars

NormalizeInit ==
    /\ locations = [l \in 1..NumLocs |-> [is_active |-> TRUE]]
    /\ weatherData = EmptyBag
    /\ extremeEvents = EmptyBag
    /\ LlmInit
    /\ AiInit
    /\ IngInit
    /\ AdvInit

NormalizeNext ==
    \/ AiPost /\ UNCHANGED <<dbVars, llmVars, ingVars, advVars, schedVars, concVars>>
    \/ AiReturn /\ UNCHANGED <<dbVars, llmVars, ingVars, advVars, schedVars, concVars>>

SpecNormalize == NormalizeInit /\ [][NormalizeNext]_vars

---------------------------------------------------------------------------
(* Properties *)

RecordCount(l) == BagCardinality(RowsOfLocation(weatherData, l))

\* C1: a location with fewer than 14 stored records gets the "Not enough
\* data" outcome with no alerts, and no request is sent to the inference
\* service for it.
C1_InsufficientDataSkipsInference ==
    \A l \in LocIds :
        RecordCount(l) < 14 =>
            /\ inferenceCalls[l] = 0
            /\ future[l] # "inflight"
            /\ future[l] \in {"done", "joined"} =>
                  result[l] = AiResult(<<>>, "Not enough data")

C1_Witness ==
    \E l \in LocIds :
        /\ RecordCount(l) = 13
        /\ future[l] = "joined"
        /\ result[l].err = "Not enough data"

\* C2: during a run of trigger_llm_analysis at most 3 inference calls are
\* in flight at the same instant, however many locations are active.
C2_AtMostThreeInFlight == Cardinality(InFlight) <= 3

C2_Witness ==
    /\ Cardinality(InFlight) = 3
    /\ \E l \in LocIds : future[l] = "queued"

\* C3: alert persistence is atomic per location: when the run has returned,
\* every valid alert the database accepts is stored, whatever happened to
\* the writes of other locations.
C3_PerLocationAlertPersistence ==
    llmPc = "done" => llm.offered \sqsubseteq extremeEvents

\* C4: ingestion writes are committed per location: when the run has
\* returned, the records of every location whose own insert did not fail
\* are stored, whatever happened to the insert of another location.
C4_PerLocationIngestCommit ==
    ingPc = "done" =>
        \A i \in DOMAIN ing.offered : HasKey(weatherData, ing.offered[i])

\* C5: ingest_data_for_single_location is idempotent: a call that repeats
\* the fetch result of the preceding successful call leaves the table of
\* WeatherData rows exactly as it was.
C5_IngestIdempotent ==
    [][ ( /\ ingestCalls' = ingestCalls + 1
          /\ lastIngest.called /\ lastIngest.ok /\ ~lastIngest.in_txn
          /\ ~lastIngest'.in_txn
          /\ lastIngest'.location_id = lastIngest.location_id
          /\ lastIngest.batch # <<>>
          /\ lastIngest'.batch = lastIngest.batch )
        => weatherData' = weatherData ]_vars

C5_Witness == lastIngest.repeat /\ lastIngest.ok

UniqueKeys(table) ==
    \A r \in BagToSet(table) :
        /\ table[r] = 1
        /\ \A q \in BagToSet(table) :
              (q.location = r.location /\ q.record_time = r.record_time) => q = r

\* C6: the store holds at most one WeatherData row per (location,
\* record_time), and no step changes or removes a stored row: a later
\* conflicting insert leaves its kind and values as they are.
C6_UniqueAndNeverOverwritten ==
    [][ /\ \A r \in BagToSet(weatherData) : r \in BagToSet(weatherData')
        /\ UniqueKeys(weatherData') ]_vars

C6_Witness ==
    /\ lastIngest.called /\ lastIngest.ok
    /\ \E i \in DOMAIN lastIngest.batch :
          \E r \in BagToSet(weatherData) :
              /\ r.location = lastIngest.batch[i].location
              /\ r.record_time = lastIngest.batch[i].record_time
              /\ r.data_type # lastIngest.batch[i].data_type

InferenceErrored(l) ==
    result[l].err \notin {"None", "Not enough data", "pending"}

\* C7: the success flag of trigger_llm_analysis is false whenever an
\* inference call errored or an alert write failed, and true when the only
\* outcomes other than success are "Not enough data".
C7_SuccessFlag ==
    (llmPc = "done" /\ llmRet.returned) =>
        LET bad == (\E l \in LocIds : InferenceErrored(l)) \/ llm.failed_writes > 0
        IN  llmRet.success = ~bad

C7_Witness ==
    /\ llmPc = "done"
    /\ llmRet.success
    /\ \E l \in LocIds : result[l].err = "Not enough data"
    /\ \E l \in LocIds : result[l].err = "None" /\ result[l].alerts # <<>>

\* C8: trigger_data_ingestion calls the ingestion of every active location
\* exactly once whatever the others did, so succeeded + failed is the number
\* of active locations, and success is reported exactly when failed = 0.
C8_EveryLocationAttempted ==
    (ingPc = "done" /\ ingRet.returned) =>
        /\ Len(ing.attempted) = Cardinality(ActiveLocations)
        /\ {ing.attempted[i] : i \in DOMAIN ing.attempted} = ActiveLocations
        /\ ing.total_success + ing.total_fail = Cardinality(ActiveLocations)
        /\ ingRet.success = (ing.total_fail = 0)

C8_Witness ==
    /\ ingPc = "done"
    /\ ing.total_fail > 0
    /\ ing.total_success > 0

\* the table as the caller's connection sees it
Visible == weatherData (+) Uncommitted

\* C9 as stated: whenever a fetch yields records they are stored and success
\* is reported, and failure is reported only when neither fetch produced a
\* record.
C9_FailureOnlyWithoutRecords ==
    [][ (ingestCalls' = ingestCalls + 1 /\ ~lastIngest'.raised) =>
           /\ lastIngest'.batch # <<>> =>
                 /\ lastIngest'.ok
                 /\ \A i \in DOMAIN lastIngest'.batch :
                       HasKey(Visible', lastIngest'.batch[i])
           /\ ~lastIngest'.ok => lastIngest'.batch = <<>> ]_vars

\* C9, amended: when the bulk insert does not raise, the records either
\* fetch yielded are in the table (each one inserted unless its key was
\* there) and success is reported; failure is reported only when the
\* location does not exist, the bulk insert raised, or no record was
\* produced and a fetch reported an error.
C9_PartialFailureTolerated ==
    [][ (ingestCalls' = ingestCalls + 1 /\ ~lastIngest'.raised) =>
           /\ (lastIngest'.batch # <<>> /\ ~lastIngest'.bulk_raised) =>
                 /\ lastIngest'.ok
                 /\ \A i \in DOMAIN lastIngest'.batch :
                       HasKey(Visible', lastIngest'.batch[i])
           /\ ~lastIngest'.ok =>
                 \/ lastIngest'.location_id \notin LocIds
                 \/ lastIngest'.bulk_raised
                 \/ lastIngest'.batch = <<>> /\ lastIngest'.errors_occurred ]_vars

C9_Witness ==
    /\ lastIngest.called /\ lastIngest.ok
    /\ lastIngest.errors_occurred
    /\ lastIngest.batch # <<>>
    /\ \A i \in DOMAIN lastIngest.batch : HasKey(Visible, lastIngest.batch[i])

IsNoneSeverity(v) == v.t = "str" /\ v.s \in {S_NONE, S_none}

\* C10: call_local_ai_for_analysis returns an array unchanged with no error,
\* an object with a severity such as HIGH as a one-element array with no
\* error, the empty object as the empty array with no error, and an error
\* outcome for a text that is not JSON.
C10_ResponseNormalization ==
    (aiPc = "returned" /\ aiHttp.kind = "body") =>
        /\ (aiSent.json /\ aiSent.val.t = "list") =>
              aiOut = AiResult(aiSent.val.items, "None")
        /\ ( /\ aiSent.json /\ aiSent.val.t = "dict"
             /\ K_severity \in DOMAIN aiSent.val.d
             /\ aiSent.val.d[K_severity].t = "str"
             /\ ~IsNoneSeverity(aiSent.val.d[K_severity]) ) =>
              aiOut = AiResult(<<aiSent.val>>, "None")
        /\ (aiSent.json /\ aiSent.val = JDict(EmptyMap)) =>
              aiOut = AiResult(<<>>, "None")
        /\ ~aiSent.json => (aiOut.alerts = <<>> /\ aiOut.err # "None")

C10_Witness ==
    /\ aiPc = "returned"
    /\ aiSent.json
    /\ aiSent.val = JDict(EmptyMap)
    /\ aiOut = AiResult(<<>>, "None")

\* the object sent has no severity, or the severity NONE in either case
HasNoRiskSeverity(v) ==
    /\ v.t = "dict"
    /\ (K_severity \in DOMAIN v.d => IsNoneSeverity(v.d[K_severity]))

\* C11 as stated: an object that is empty or carries no severity or the
\* severity NONE is classified as zero alerts with no error, and an error
\* outcome is produced only for values that are neither object nor array and
\* for texts that do not parse.
C11_InvalidObjectIsNoAlerts ==
    (aiPc = "returned" /\ aiHttp.kind = "body") =>
        /\ (aiSent.json /\ HasNoRiskSeverity(aiSent.val)) =>
              aiOut = AiResult(<<>>, "None")
        /\ aiOut.err # "None" =>
              (~aiSent.json \/ aiSent.val.t \notin {"list", "dict"})

\* C11: the empty object is classified as zero alerts with no error; a
\* non-empty object without a severity or with the severity NONE gives zero
\* alerts with the error "AI response invalid structure", as does a value
\* that is neither object nor array; a text that does not parse gives the
\* parsing error.
C11_InvalidObjectIsError ==
    (aiPc = "returned" /\ aiHttp.kind = "body") =>
        /\ (aiSent.json /\ aiSent.val = JDict(EmptyMap)) =>
              aiOut = AiResult(<<>>, "None")
        /\ ( /\ aiSent.json
             /\ \/ HasNoRiskSeverity(aiSent.val) /\ aiSent.val # JDict(EmptyMap)
                \/ aiSent.val.t \notin {"list", "dict"} ) =>
              aiOut = AiResult(<<>>, "AI response invalid structure")
        /\ ~aiSent.json => aiOut = AiResult(<<>>, "AI Response Parsing Error")

C11_Witness ==
    /\ aiPc = "returned"
    /\ aiSent.json
    /\ aiSent.val = MkObject(SevGiven(JStr(S_none)), "full")
    /\ aiOut = AiResult(<<>>, "AI response invalid structure")

\* the four required fields are present in the entry as non-empty strings
IsWellFormedEntry(a) ==
    /\ a.t = "dict"
    /\ \A k \in {K_severity, K_impact, K_details, K_advice} :
          k \in DOMAIN a.d /\ a.d[k].t = "str" /\ Len(a.d[k].s) > 0

\* every ExtremeEvent row written so far, committed or not
WrittenEvents == BagToSet(extremeEvents (+) llmTxn.pending)

\* C12: every ExtremeEvent ever written has a non-empty severity,
\* impact_field, forecast_details_vi and actionable_advice_vi, and is the row
\* of an entry of its location's result that carries all four as non-empty
\* strings.
C12_PersistedAlertsAreComplete ==
    \A r \in WrittenEvents :
        /\ r.severity # <<>> /\ r.impact_field # <<>>
        /\ r.forecast_details_vi # <<>> /\ r.actionable_advice_vi # <<>>
        /\ \E i \in DOMAIN result[r.location].alerts :
              LET a == result[r.location].alerts[i] IN
              IsWellFormedEntry(a) /\ r = EventRow(r.location, a)

C12_Witness ==
    \E l \in LocIds :
        /\ future[l] = "joined"
        /\ result[l].alerts = MixedAlerts
        /\ EventRow(l, ValidAlert) \in BagToSet(extremeEvents)
        /\ EventRow(l, ValidAlertLower) \in BagToSet(extremeEvents)

\* the rows of the well-formed entries of the array returned for l
ValidRows(l) ==
    LET a == result[l].alerts
        ok == {i \in DOMAIN a : IsWellFormedEntry(a[i])}
    IN  [r \in {EventRow(l, a[i]) : i \in ok} |->
            Cardinality({i \in ok : EventRow(l, a[i]) = r})]

\* C13: when the array returned for a location mixes valid and invalid
\* entries, every valid entry is stored once the run has returned and no
\* invalid one is, wherever the invalid entries stand, and the invalid
\* entries set no error flag.
C13_InvalidEntriesDroppedValidKept ==
    llmPc = "done" =>
        /\ \A l \in LocIds :
              (future[l] = "joined"
                 /\ result[l].alerts \in {MixedAlerts, MixedAlertsValidFirst}) =>
                  RowsOfLocation(extremeEvents, l) = ValidRows(l)
        /\ (\A l \in LocIds :
               future[l] = "joined"
                 /\ result[l].alerts \in {MixedAlerts, MixedAlertsValidFirst}) =>
              llmRet.success

\* the step is the arrival of a get_ai_advice request for q
AdviceArrives(q) ==
    /\ advPc = "idle"
    /\ \/ advPc' = "computing" /\ advReq'.q = q
       \/ advCalls' = advCalls + 1 /\ advResp'.op = "get_ai_advice" /\ advResp'.q = q

AdviceHit(value) == advPc' = "idle" /\ advResp'.kind = "hit" /\ advResp'.body = value

\* the hot-cache entries stored for the location of q
EntriesFor(q) == {e \in hotCache : e.key.name = StrLower(q)}

\* C14 as stated: an advisory stored in the hot cache at T is returned as a
\* hit to a request for the same location at every time up to T+179 minutes,
\* and a request at T+181 minutes or later is a miss, for every T.
C14_HotCacheTtl ==
    [][ \A q \in Names : AdviceArrives(q) =>
          /\ \A e \in EntriesFor(q) :
                (now <= e.stored + 179 /\ \A o \in EntriesFor(q) : o.stored <= e.stored)
                    => AdviceHit(e.value)
          /\ (\A e \in EntriesFor(q) : now >= e.stored + 181) => advPc' = "computing"
      ]_vars

\* C14: an advisory stored at T by a request that arrived on calendar day D is
\* returned as a hit to every request for the same location name that
\* arrives on day D at a time up to T+179 minutes; a request arriving on
\* another day, or at T+181 minutes or later, is a miss.
C14_HotCacheTtlSameDay ==
    [][ \A q \in Names : AdviceArrives(q) =>
          /\ \A e \in EntriesFor(q) :
                (e.key.day = DateOf(now) /\ now <= e.stored + 179) => AdviceHit(e.value)
          /\ (\A e \in EntriesFor(q) :
                e.key.day # DateOf(now) \/ now >= e.stored + 181) => advPc' = "computing"
      ]_vars

\* a hit at the age of 179 minutes
C14_Witness ==
    /\ advResp.kind = "hit"
    /\ \E e \in hotCache :
          /\ e.key = CacheKey(advResp.q, now)
          /\ now = e.stored + 179
          /\ e.value = advResp.body

\* the step answers a check_recent_advice request
CheckAnswered == advCalls' = advCalls + 1 /\ advResp'.op = "check_recent_advice"

\* C15: check_recent_advice returns the most recent AdviceCache record of
\* the location exactly when that record exists and was generated within the
\* last hour, and otherwise, also for an unknown location, answers 'stale'.
C15_RecentAdviceOrStale ==
    [][ CheckAnswered =>
          LET rows == UNION {AdviceRowsOf(l) : l \in MatchIexact(advResp'.q)}
              recent == {r \in LatestAdvice(rows) : now - r.generated_time <= 60}
          IN  IF recent # {}
              THEN advResp'.kind = "advice" /\ advResp'.body \in recent
              ELSE advResp'.kind = "stale"
      ]_vars

\* the step returns a freshly computed advisory
FreshReturned == advPc = "computing" /\ advPc' = "idle" /\ advResp'.kind = "fresh"

\* C16: the advisory log is append-only: no step changes or removes an
\* existing AdviceCache record, and a record is added only by a successful
\* fresh computation, one per computation.
C16_AdviceLogAppendOnly ==
    [][ /\ adviceCache \subseteq adviceCache'
        /\ adviceCache' # adviceCache =>
              FreshReturned /\ Cardinality(adviceCache' \ adviceCache) = 1
      ]_vars

\* after the step the hot cache holds the returned advisory under the key
\* of the request
HotCacheUpdated ==
    \E e \in hotCache' :
        /\ e.key = advReq.cache_key /\ e.value = advResp'.body
        /\ e.stored = now /\ e.expires > now

\* the step adds one record carrying the returned advisory for the
\* location of the request
LogAppended ==
    /\ adviceCache \subseteq adviceCache'
    /\ Cardinality(adviceCache' \ adviceCache) = 1
    /\ \A r \in adviceCache' \ adviceCache :
          /\ r.location \in {id \in DOMAIN locations' :
                               StrLower(locations'[id].name_en) = StrLower(advReq.q)}
          /\ r.advice_type = advResp'.body.d[K_type].s
          /\ r.message_vi = advResp'.body.d[K_message].s

\* C17 as stated: after every call that returns a freshly computed advisory
\* the hot cache holds it under the request's key and the log holds a new
\* record for the location carrying it.
C17_BothTiersUpdated ==
    [][ FreshReturned => (HotCacheUpdated /\ LogAppended) ]_vars

\* C17: after every call that returns a freshly computed advisory the hot
\* cache holds it under the request's key; the log holds a new record for the
\* location carrying it unless the Location lookup or the insert raised, and
\* is then unchanged.
C17_BothTiersUnlessLogFails ==
    [][ FreshReturned =>
          /\ HotCacheUpdated
          /\ IF Cardinality(MatchIexact(advReq.q)) <= 1 /\ ~advIn'.db_fails
             THEN LogAppended
             ELSE adviceCache' = adviceCache
      ]_vars

C17_Witness ==
    /\ advResp.kind = "fresh"
    /\ ~advIn.db_fails
    /\ \E e \in hotCache : e.stored = now /\ e.value = advResp.body
    /\ \E r \in adviceCache :
          /\ r.location \in MatchIexact(advResp.q)
          /\ r.advice_type = advResp.body.d[K_type].s
          /\ r.message_vi = advResp.body.d[K_message].s

\* the weather data of the computation is usable but for the coordinates,
\* and the inference service would answer with an advisory
BadCoordinatesOnly(c) ==
    /\ c.w.fc_ok /\ c.w.hours = "ok"
    /\ c.w.lat.kind # "num" \/ c.w.lon.kind # "num"
    /\ IsUsableAdvice(call_local_ai_for_advice(c.http))

ComputationEnds == advPc = "computing" /\ advPc' = "idle"

C19_CoordinateTolerance ==
    [][ (FreshReturned /\ Cardinality(MatchIexact(advReq.q)) = 1) =>
          LET id == CHOOSE l \in MatchIexact(advReq.q) : TRUE
              lat == advIn'.w.lat.u
              lon == advIn'.w.lon.u
              dlat == locations[id].latitude - lat
              dlon == locations[id].longitude - lon
          IN  IF dlat > 1000 \/ dlat < -1000 \/ dlon > 1000 \/ dlon < -1000
              THEN locations' = [locations EXCEPT ![id].latitude = lat,
                                                  ![id].longitude = lon]
              ELSE locations' = locations
      ]_vars

\* a tracked location whose longitude was replaced by one 0.01 degree away
C19_Witness ==
    /\ advResp.kind = "fresh"
    /\ \E id \in DOMAIN locations :
          /\ locations[id].users # {}
          /\ locations[id].longitude = 105810000
          /\ locations[id].longitude = advIn.w.lon.u

\* C20: every AdviceCache record and every advisory in the hot cache has
\* the kind 'advice' or 'warning'.
C20_KindIsAdviceOrWarning ==
    /\ \A r \in adviceCache : r.advice_type \in {T_advice, T_warning}
    /\ \A e \in hotCache : e.value.d[K_type].s \in {T_advice, T_warning}

\* the rows of the valid entries returned for l that the database accepts
AcceptedRows(l) ==
    LET v == ValidRows(l)
        ok == {r \in DOMAIN v : ~DbRejectsEvent(r)}
    IN  IF result[l].err = NoError THEN [r \in ok |-> v[r]] ELSE EmptyBag

\* the inference call for l timed out or could not connect
TimedOutOrUnreachable(l) ==
    result[l].err \in {"AI Timeout", "AI Connection Error"}

\* C26: a timeout or connection failure of the inference call for one
\* location fails only that location: once the run has returned its summary
\* every other active location has been analyzed and joined, and its valid
\* alerts are stored.
C26_TimeoutFailsOnlyItsLocation ==
    llmPc = "done" =>
        \A l \in ActiveLocations : TimedOutOrUnreachable(l) =>
            /\ llmRet.returned
            /\ \A m \in ActiveLocations \ {l} :
                  /\ future[m] = "joined"
                  /\ ~HasTooFewRecords(m) => inferenceCalls[m] = 1
                  /\ RowsOfLocation(extremeEvents, m) = AcceptedRows(m)

\* C27: the outcome of trigger_llm_analysis is determined by what the tasks
\* returned and not by the order in which they completed: the stored alerts
\* are the accepted valid alerts of every location, the created count is the
\* number of alerts stored, and success is reported exactly when no inference
\* call errored and no write was refused.
C27_OutcomeIndependentOfOrder ==
    (llmPc = "done" /\ ActiveLocations # {}) =>
        /\ \A l \in LocIds :
              RowsOfLocation(extremeEvents, l) =
                  (IF l \in ActiveLocations THEN AcceptedRows(l) ELSE EmptyBag)
        /\ llmRet.created = BagCardinality(extremeEvents)
        /\ llmRet.success =
              \A l \in ActiveLocations :
                  /\ ~InferenceErrored(l)
                  /\ AcceptedRows(l) = (IF result[l].err = NoError
                                        THEN ValidRows(l) ELSE EmptyBag)

\* C29: for a location with at least 14 records, the series sent to the
\* inference service is made of the 14 rows of that location with the
\* greatest record_time, in ascending record_time order, and of no row of
\* another location.
C29_SeriesIsLatestWindow ==
    \A l \in LocIds :
        (inferenceCalls[l] > 0 /\ RecordCount(l) >= 14) =>
            LET s == series[l]
                sent == {s[i] : i \in DOMAIN s}
                own == {r \in BagToSet(weatherData) : r.location = l}
            IN  /\ Len(s) = 14
                /\ sent \subseteq own
                /\ \A i, j \in DOMAIN s : i < j => s[i].record_time < s[j].record_time
                /\ \A r \in own \ sent : \A x \in sent : r.record_time < x.record_time

\* a series cut from 15 records: the oldest one is left out
C29_Witness ==
    \E l \in LocIds :
        /\ inferenceCalls[l] = 1
        /\ RecordCount(l) = 15
        /\ Len(series[l]) = 14
        /\ series[l][1].record_time = 2
        /\ series[l][14].record_time = 15

\* C28: a request that finds a live hot-cache entry under its key is
\* answered with exactly that advisory and calls neither the weather source
\* nor the inference service; any other request starts a fresh computation,
\* which asks the weather source.
C28_HitReturnsCachedMissComputes ==
    [][ /\ \A q \in Names : AdviceArrives(q) =>
              LET live == {e \in hotCache : e.key = CacheKey(q, now) /\ e.expires > now}
              IN  IF live # {}
                  THEN /\ \E e \in live :
                            advResp' = Resp("get_ai_advice", q, 200, "hit", e.value)
                       /\ advPc' = "idle"
                       /\ extCalls' = extCalls
                  ELSE /\ advPc' = "computing"
                       /\ advResp' = advResp
        /\ ComputationEnds => extCalls'.weather = extCalls.weather + 4
      ]_vars

\* a hit after a computation: the requests made are those of the computation
C28_Witness ==
    /\ advResp.kind = "hit"
    /\ advCalls = 2
    /\ extCalls = [weather |-> 4, inference |-> 1]

\* C30: every active Location has at least one subscriber.
C30_ActiveLocationsHaveSubscribers ==
    \A id \in DOMAIN locations : locations[id].is_active => locations[id].users # {}

---------------------------------------------------------------------------
(* Properties of the scheduler *)

ScheduledIds(s) == {j.id : j \in Scheduled(s)}

\* C21: a track_location call that creates a Location adds exactly two
\* one-shot jobs, with the distinct ids instant_ingest_<id> and
\* instant_analyze_<id>, and the call itself runs neither of them: no job is
\* fired, no run is started and no weather or inference request is made.
C21_NewLocationSchedulesTwoJobs ==
    [][ \A id \in (DOMAIN locations' \ DOMAIN locations) :
          LET added == Scheduled(sched') \ Scheduled(sched) IN
          /\ ScheduledCount(sched') = ScheduledCount(sched) + 2
          /\ Cardinality(added) = 2
          /\ {j.id : j \in added} = {JobId(P_instant_ingest, id),
                                     JobId(P_instant_analyze, id)}
          /\ JobId(P_instant_ingest, id) # JobId(P_instant_analyze, id)
          /\ \A j \in added : j.trigger = "date" /\ j.arg = id
          /\ runs' = runs
          /\ fired' = fired
          /\ extCalls' = extCalls
      ]_vars

\* the second new location was just tracked: its two jobs wait beside the
\* first location's, and nothing has run
C21_Witness ==
    /\ advResp.op = "track_location"
    /\ advResp.status = 201
    /\ DOMAIN locations = {1, 2}
    /\ {JobId(P_instant_ingest, 2), JobId(P_instant_analyze, 2)}
           \subseteq ScheduledIds(sched)
    /\ JobId(P_instant_analyze, 2) = <<"instant_analyze_", "2">>
    /\ fired = <<>>
    /\ extCalls = NoCalls

IngestRunning(id) ==
    \E r \in runs : r.func = "ingest_data_for_single_location" /\ r.arg = id

\* C22: the one-shot analysis of a location starts only after the one-shot
\* ingestion of that location has fired and ended.
C22_AnalysisAfterIngestionCompleted ==
    [][ \A r \in runs' \ runs :
          r.func = "analyze_single_location" =>
              /\ FiredCount(JobId(P_instant_ingest, r.arg)) = 1
              /\ ~IngestRunning(r.arg)
      ]_vars

RegisteredOnce(id) ==
    /\ Cardinality({j \in sched.store : j.id = id}) = 1
    /\ \A i \in DOMAIN sched.pending : sched.pending[i].id # id

\* C23: once ApiConfig.ready or scheduler.start has been invoked and no
\* invocation is in progress, the scheduler is running, it was started
\* exactly once, and each of the two recurring jobs is registered exactly
\* once.
C23_OneSchedulerJobsOnce ==
    (invoked /\ \A t \in InitThreads : initPc[t] = "idle") =>
        /\ sched.running
        /\ sched.starts = 1
        /\ \A id \in RecurringIds : RegisteredOnce(id)

RecurringRunEndsBadly ==
    \E r \in runs \ runs' :
        /\ r.id \in RecurringIds
        /\ lastDone'[r.id] \in {"failed", "raised"}

\* the run time a recurring job has after n firings
CadenceTime(id, n) ==
    (IF id = ID_data_ingestion THEN ingestion_cron_time ELSE analysis_cron_time)
        + n * day_seconds

\* C24: a run of a recurring job that fails or raises changes nothing in the
\* scheduler: every job, that one included, keeps its place and its run
\* time, and every other run goes on.  A recurring job that has fired stays
\* scheduled at its next daily run time, and no job is left behind by the
\* clock, so it fires again at that time.
C24_FailedRunKeepsSchedule ==
    /\ [][ RecurringRunEndsBadly =>
              /\ sched' = sched
              /\ fired' = fired
              /\ Cardinality(runs \ runs') = 1
              /\ runs' \subseteq runs
         ]_vars
    /\ [](\A id \in RecurringIds : FiredCount(id) > 0 =>
              \E j \in sched.store :
                  /\ j.id = id
                  /\ j.next_run_time = CadenceTime(id, FiredCount(id)))
    /\ [](sched.running => \A j \in sched.store : j.next_run_time >= clock)

\* the first daily ingestion raised, and the job has fired again a day later
C24_Witness ==
    /\ ID_data_ingestion \in DOMAIN lastDone
    /\ lastDone[ID_data_ingestion] = "raised"
    /\ FiredCount(ID_data_ingestion) = 2
    /\ \E r \in runs : r.id = ID_data_ingestion /\ r.started = CadenceTime(r.id, 1)
    /\ clock = day_seconds + ingestion_cron_time

OneShotIds == {JobId(p, id) : p \in {P_instant_ingest, P_instant_analyze},
                              id \in DOMAIN locations}

\* C25: a one-shot job fires at most once, and once it has fired it is no
\* longer scheduled, however its run comes out.
C25_OneShotFiresAtMostOnce ==
    \A jid \in OneShotIds :
        /\ FiredCount(jid) <= 1
        /\ FiredCount(jid) = 1 => jid \notin ScheduledIds(sched)

\* a day after the two jobs of location 1 fired and their runs ended,
\* neither job has run again
C25_Witness ==
    /\ FiredCount(JobId(P_instant_ingest, 1)) = 1
    /\ FiredCount(JobId(P_instant_analyze, 1)) = 1
    /\ FiredCount(ID_data_ingestion) = 2
    /\ \A r \in runs : r.id \in RecurringIds
    /\ clock >= day_seconds

---------------------------------------------------------------------------
(* Properties of track_location *)

\* C31: a track_location call for a name that a Location already has adds
\* the user to that location's subscribers (a user who is there already
\* leaves the set as it is), makes the location active, keeps its stored
\* latitude and longitude whatever the request carries, changes no other
\* row, creates no row and schedules no job.
C31_TrackExistingLocation ==
    [][ \A name_en \in Names, latitude \in TrackLats, user_id \in TrackUsers :
          (TrackLocation(name_en, latitude, BaseLon.u, user_id)
             /\ MatchExact(name_en) # {}) =>
              LET id == SetMin(MatchExact(name_en)) IN
              /\ DOMAIN locations' = DOMAIN locations
              /\ locations'[id].users = locations[id].users \cup {user_id}
              /\ user_id \in locations[id].users =>
                     locations'[id].users = locations[id].users
              /\ locations'[id].is_active
              /\ locations'[id].latitude = locations[id].latitude
              /\ locations'[id].longitude = locations[id].longitude
              /\ locations'[id].name_en = locations[id].name_en
              /\ \A other \in DOMAIN locations \ {id} :
                     locations'[other] = locations[other]
              /\ sched' = sched
      ]_vars

\* after two calls for the one location that existed: it is active, both
\* users are subscribed, the position is the stored one and no job is
\* scheduled
C31_Witness ==
    /\ advResp.op = "track_location"
    /\ advCalls = 2
    /\ DOMAIN locations = {1}
    /\ locations[1].users = {1, 2}
    /\ locations[1].is_active
    /\ locations[1].latitude = BaseLat.u
    /\ ScheduledCount(sched) = 0

---------------------------------------------------------------------------
(* Further properties of the advice endpoints *)

\* C32: when check_recent_advice returns an advisory, an inference call for
\* that location completed within the last hour and produced the message
\* returned (each successful call leaves its hot-cache entry, stored at the
\* time of the call and kept for 3 hours).
C32_ReturnedAdviceInferredWithinHour ==
    [][ (CheckAnswered /\ advResp'.kind = "advice") =>
          \E e \in EntriesFor(advResp'.q) :
              /\ now - e.stored <= recent_window
              /\ e.value.d[K_message].s = advResp'.body.message_vi
      ]_vars

\* C33: at most one Location exists per case-insensitive name, so a lookup
\* with name_en__iexact finds no Location or exactly one.
C33_OneLocationPerName ==
    \A q \in Names : Cardinality(MatchIexact(q)) <= 1

---------------------------------------------------------------------------
(* Properties of requests that overlap in time *)

\* C34: once no track_location call is in progress, every user whose call
\* was answered with success is among the subscribers of the location the
\* call was for; in particular both users of two calls that ran at the same
\* time.
C34_NoSubscriberLost ==
    (advPc = "idle" /\ parked.pc = "idle") =>
        \A t \in tracked : t.user \in locations[t.id].users

\* the unexpired hot-cache entries under the key of a request for q now
LiveEntries(q) ==
    {e \in hotCache : /\ e.key = [name |-> StrLower(q), day |-> DateOf(now)]
                      /\ e.expires > now}

\* the step sends a request to the inference service
InferenceCalled == extCalls'.inference = extCalls.inference + 1

\* C37 as stated: while an unexpired hot-cache entry exists for a key, no
\* get_ai_advice request for that key calls the inference service, also when
\* requests for the key overlap in time.
C37_NoInferenceWhileEntryLive ==
    [][ InferenceCalled => LiveEntries(advReq.q) = {} ]_vars

\* C37: a get_ai_advice request that finds an unexpired hot-cache entry for
\* its key at its cache lookup is answered from that entry and never calls
\* the inference service; the inference service is called only by a request
\* whose lookup had found no entry.
C37_HitAtLookupMakesNoInferenceCall ==
    [][ /\ \A q \in Names :
              (AdviceArrives(q) /\ parked' = parked /\ LiveEntries(q) # {}) =>
                  /\ \E e \in LiveEntries(q) : AdviceHit(e.value)
                  /\ extCalls' = extCalls
        /\ InferenceCalled => advPc = "computing" /\ advPc' = "idle"
      ]_vars

\* a request is answered from the entry that a second thread stored while
\* the first thread's request, which had missed, is still waiting
C37_Witness ==
    /\ advResp.kind = "hit"
    /\ advPc = "idle"
    /\ parked.pc = "computing"
    /\ LiveEntries(parked.req.q) # {}
    /\ extCalls.inference = 1

\* the inference call gave no answer, or one that is no verdict: not JSON,
\* no dict with "type" and "message_vi", or of type "error"
NoVerdict(http) ==
    \/ http.kind # "body"
    \/ ~JsonLoads(http.text).ok
    \/ LET v == JsonLoads(http.text).val IN
         \/ v.t # "dict"
         \/ ~({K_type, K_message} \subseteq DOMAIN v.d)
         \/ v.d[K_type] = JStr(T_error)

\* the fresh computation that ends in this step failed: the forecast fetch
\* failed or had no hourly data, or the inference service was called and
\* gave no verdict
ComputationFailed ==
    /\ ComputationEnds
    /\ \/ ~advIn'.w.fc_ok
       \/ advIn'.w.hours = "none"
       \/ InferenceCalled /\ NoVerdict(advIn'.http)

\* C39: a fresh computation of get_ai_advice that fails is answered with an
\* error response and leaves the hot cache, the advisory log and the
\* Locations unchanged.
C39_FailedComputationChangesNothing ==
    [][ ComputationFailed =>
          /\ advResp'.kind = "error"
          /\ advResp'.status >= 400
          /\ hotCache' = hotCache
          /\ adviceCache' = adviceCache
          /\ locations' = locations
      ]_vars

\* the inference call of a request timed out while the stores hold the
\* advisory of an earlier request
C39_Witness ==
    /\ advResp.kind = "error"
    /\ advResp.status = 503
    /\ advIn.w = BaseWeather
    /\ advIn.http = HttpTimeout
    /\ hotCache # {}
    /\ adviceCache # {}
    /\ locations # <<>>

---------------------------------------------------------------------------
(* The alert store and the onboarding analysis *)

\* a run of the function ends in this step
RunEnds(func) ==
    \E run \in runs : run.func = func /\ runs' = runs \ {run}

\* C35: the one-shot analysis job leaves the alert store unchanged whatever
\* the inference service returns, and the alert store changes only when a run
\* of trigger_llm_analysis ends.
C35_OnlyTriggerLlmAnalysisCreatesEvents ==
    [][ /\ (RunEnds("analyze_single_location") => extremeEvents' = extremeEvents)
        /\ (extremeEvents' # extremeEvents => RunEnds("trigger_llm_analysis")) ]_vars

\* the onboarding analysis of the first location has run and ended, and the
\* daily analysis has stored alerts
C35_Witness ==
    /\ FiredCount(JobId(P_instant_analyze, 1)) = 1
    /\ \A run \in runs : run.func # "analyze_single_location"
    /\ \E e \in BagToSet(extremeEvents) : e.location = 1

---------------------------------------------------------------------------
(* The two windows of one ingest *)

\* the days the history request and the forecast request of a day cover
HistoryWindow(day) ==
    (day - hist_end_offset - hist_span)..(day - hist_end_offset)
ForecastWindow(day) == day..(day + forecast_days - 1)

\* a call of ingest_data_for_single_location for the location ends in this step
SingleIngest(l) ==
    /\ ingestCalls' = ingestCalls + 1
    /\ lastIngest'.called /\ ~lastIngest'.in_txn
    /\ lastIngest'.location_id = l

\* the rows of a kind the call has built
BatchOf(kind) ==
    {i \in DOMAIN lastIngest'.batch : lastIngest'.batch[i].data_type = kind}

\* both fetches returned every day and the insert went through
BothComplete ==
    /\ Cardinality(BatchOf("HISTORY")) = hist_span + 1
    /\ Cardinality(BatchOf("FORECAST")) = forecast_days
    /\ ~lastIngest'.bulk_raised

StoredDays(table, l) == {r.record_time : r \in {x \in BagToSet(table) : x.location = l}}

---------------------------------------------------------------------------
(* Liveness of the one-shot jobs *)

\* the one-shot job is in the scheduler with a run time the clock reaches
Waiting(jid) ==
    \E j \in Scheduled(sched) : j.id = jid /\ j.next_run_time <= Horizon

\* C38: in a process whose initialization has run, every one-shot job that
\* track_location has added to the scheduler eventually fires.
C38_OneShotJobsEventuallyFire ==
    \A id \in 1..Cardinality(Names) :
        \A p \in {P_instant_ingest, P_instant_analyze} :
            (InitDone /\ Waiting(JobId(p, id))) ~> (FiredCount(JobId(p, id)) = 1)

====
